---- MODULE Spec2Model ----
(***************************************************************************)
(* Model of the page assembler of the static-site export pipeline          *)
(* (src/src/plugin/website/webpage.ts): heading-anchor allocation, link    *)
(* resolution, the link / embed remap passes of build(), and attachment    *)
(* collection with Advanced-Slides embeds (getAttachments).                *)
(*                                                                         *)
(* Strings are sequences of one-character strings, so that the string      *)
(* operations of the source (replaceAll, split, startsWith, template       *)
(* literals, the URL regular expression) are computed, not assumed.        *)
(***************************************************************************)
EXTENDS Integers, Sequences, FiniteSets, TLC

VARIABLES
    exportOptions,  \* the options of the run: relativeHeaderLinks, slugifyPaths
    headings,       \* page -> sequence of heading elements [text, id]
    headerMap,      \* page -> Webpage.headerMap (normalised text -> suffix string)
    elems,          \* page -> sequence of href / src bearing elements of the page
    stage,          \* page -> position of the page in build()
    sourceBlocks,   \* page -> the ```slide blocks of the page's source text (keys)
    embeds,         \* page -> sequence of slide-embed placeholders of the page
    attachments,    \* page -> Webpage.attachments (sequence of Attachment objects)
    embedCache,     \* Webpage.advancedSlidesEmbedCache (key -> Attachment object)
    objects,        \* every Attachment object created so far (object id -> fields)
    pc,             \* page -> position of the page in getAttachments()
    cur,            \* page -> the local variables of the suspended getAttachments()
    calls,          \* page -> number of getAttachments() calls started
    renderCalls,    \* key -> number of renderer.renderFile invocations
    renderOk,       \* key -> number of renderer.renderFile calls that returned HTML
    assetsPromise,  \* Webpage.advancedSlidesAssetsPromise: unset, pending, resolved
    assetWalks,     \* number of walks of the renderer's asset folders started
    exportRun,      \* number of the export run of the process that is under way
    life,           \* page -> the Webpage instance's lifecycle: type, results, output
    metadata,       \* the tag lists of a page's metadata and the allTags read from them
    call,           \* the last direct call of a query of a page: arguments and result
    vault,          \* app.vault's files and what the host's lookups answer for a slide
    deviceSize,     \* ObsidianSite.deviceSize: phone, tablet or desktop
    sidebars,       \* side -> the Sidebar instance: _collapsed, its class, its toggle
    bodyListeners,  \* the click listeners registered on document.body, in order
    siteEvent       \* the last event on the page: the setter calls and listeners it ran

vars == <<exportOptions, headings, headerMap, elems, stage, sourceBlocks, embeds,
          attachments, embedCache, objects, pc, cur, calls, renderCalls, renderOk,
          assetsPromise, assetWalks, exportRun, life, metadata, call, vault,
          deviceSize, sidebars, bodyListeners, siteEvent>>

linkVars == <<exportOptions, headings, headerMap, elems, stage>>
embedVars == <<sourceBlocks, embeds, attachments, embedCache, objects, pc, cur,
               calls, renderCalls, renderOk, assetsPromise, assetWalks>>
siteVars == <<deviceSize, sidebars, bodyListeners, siteEvent>>
lifeVars == <<life, metadata, call, vault, siteVars>>

Pages == {1, 2}

(***************************************************************************)
(* JavaScript values and string primitives                                 *)
(***************************************************************************)

\* The value `undefined` (never equal to a string of the model's alphabet).
Undefined == <<"<undefined>">>

\* "undefined": what a template literal or a `+` makes of the value undefined.
UndefinedText == <<"u","n","d","e","f","i","n","e","d">>

\* String(v) as used by `+` and template literals.
ToText(v) == IF v = Undefined THEN UndefinedText ELSE v

\* JavaScript truthiness of a string-or-undefined value.
Truthy(v) == v # Undefined /\ v # <<>>

\* The characters the regular-expression class \w matches.
WordChars ==
    {"a","b","c","d","e","f","g","h","i","j","k","l","m","n","o","p","q","r",
     "s","t","u","v","w","x","y","z","X","Y","_",
     "0","1","2","3","4","5","6","7","8","9"}

Digits == <<"0","1","2","3","4","5","6","7","8","9">>

StartsWith(s, pre) ==
    /\ Len(s) >= Len(pre)
    /\ SubSeq(s, 1, Len(pre)) = pre

\* s.substring(n)
Substring(s, n) == SubSeq(s, n + 1, Len(s))

RECURSIVE ReplaceAll(_, _, _)
\* s.replaceAll(pat, rep): left to right, non-overlapping, a single pass.
ReplaceAll(s, pat, rep) ==
    IF Len(s) < Len(pat) \/ s = <<>> THEN s
    ELSE IF StartsWith(s, pat) THEN rep \o ReplaceAll(Substring(s, Len(pat)), pat, rep)
    ELSE <<Head(s)>> \o ReplaceAll(Tail(s), pat, rep)

RECURSIVE Split(_, _)
\* s.split(sep) for a one-character separator: always at least one part.
Split(s, sep) ==
    IF \A i \in 1..Len(s) : s[i] # sep THEN <<s>>
    ELSE LET k == CHOOSE i \in 1..Len(s) :
                      s[i] = sep /\ \A j \in 1..(i - 1) : s[j] # sep
         IN <<SubSeq(s, 1, k - 1)>> \o Split(Substring(s, k), sep)

RECURSIVE TrimStart(_)
TrimStart(s) == IF s # <<>> /\ Head(s) = " " THEN TrimStart(Tail(s)) ELSE s

RECURSIVE TrimEnd(_)
TrimEnd(s) ==
    IF s # <<>> /\ s[Len(s)] = " " THEN TrimEnd(SubSeq(s, 1, Len(s) - 1)) ELSE s

\* s.trim()
Trim(s) == TrimEnd(TrimStart(s))

\* parts[i]?.trim(): undefined when the split produced fewer parts.
PartTrim(parts, i) == IF Len(parts) >= i THEN Trim(parts[i]) ELSE Undefined

RECURSIVE ToDecimal(_)
\* `${n}` for a non-negative integer.
ToDecimal(n) ==
    IF n < 10 THEN <<Digits[n + 1]>>
    ELSE ToDecimal(n \div 10) \o <<Digits[(n % 10) + 1]>>

DigitValue(c) == (CHOOSE i \in 1..10 : Digits[i] = c) - 1

RECURSIVE ToNumber(_)
\* +s for a string of decimal digits.
ToNumber(s) ==
    IF s = <<>> THEN 0
    ELSE 10 * ToNumber(SubSeq(s, 1, Len(s) - 1)) + DigitValue(s[Len(s)])

\* /\w+:(\/\/|\\\\)/.exec(s): the pattern is not anchored.
MatchesUrlScheme(s) ==
    \E i \in 1..Len(s) :
        /\ i + 3 <= Len(s)
        /\ s[i] \in WordChars
        /\ s[i + 1] = ":"
        /\ \/ s[i + 2] = "/" /\ s[i + 3] = "/"
           \/ s[i + 2] = "\\" /\ s[i + 3] = "\\"

(***************************************************************************)
(* Collaborators of the page assembler: Path, Website.getFilePathFromSrc   *)
(* and the Index (src/plugin/utils/path, src/plugin/website/website are    *)
(* not part of the sources at hand; they follow the specification).        *)
(***************************************************************************)

MdExt == <<".","m","d">>
HtmlExt == <<"h","t","m","l">>

\* The vault: source files of the two pages and one image.
PageSource(p) == IF p = 1 THEN <<"p">> \o MdExt ELSE <<"q">> \o MdExt
PageTarget(p) == IF p = 1 THEN <<"p",".">> \o HtmlExt ELSE <<"q",".">> \o HtmlExt
ImageSource == <<"i",".","p","n","g">>
ImageTarget == <<"i",".","p","n","g">>

\* A 3D model of the vault whose name slugifies to another one: X.glb, in
\* the output x.glb.
ModelSource == <<"X", ".", "g", "l", "b">>
ModelTarget == <<"x", ".", "g", "l", "b">>

NoFile == [found |-> FALSE, targetPath |-> <<>>, isHtml |-> FALSE, page |-> 0]

\* Index.getFile(pathname, preferAttachment): source path -> known Attachment.
IndexGetFile(pathname, preferAttachment) ==
    IF \E p \in Pages : pathname = PageSource(p)
    THEN LET p == CHOOSE q \in Pages : pathname = PageSource(q)
         IN [found |-> TRUE, targetPath |-> PageTarget(p), isHtml |-> TRUE, page |-> p]
    ELSE IF pathname = ImageSource
    THEN [found |-> TRUE, targetPath |-> ImageTarget, isHtml |-> FALSE, page |-> 0]
    ELSE IF pathname = ModelSource
    THEN [found |-> TRUE, targetPath |-> ModelTarget, isHtml |-> FALSE, page |-> 0]
    ELSE NoFile

RECURSIVE UntilAnyOf(_, _)
\* The prefix of s before the first character of `stops`.
UntilAnyOf(s, stops) ==
    IF s = <<>> \/ Head(s) \in stops THEN <<>>
    ELSE <<Head(s)>> \o UntilAnyOf(Tail(s), stops)

\* Website.getFilePathFromSrc(src, exportingFilePath).pathname for pages at the
\* vault root: query and fragment dropped, an app://host/ prefix or a leading
\* "./" or "/" dropped.
GetFilePathFromSrc(src) ==
    LET bare == UntilAnyOf(src, {"?", "#"})
        AppScheme == <<"a","p","p",":","/","/">>
    IN IF StartsWith(bare, AppScheme)
       THEN LET rest == Substring(bare, Len(AppScheme))
            IN Substring(rest, Len(UntilAnyOf(rest, {"/"})) + 1)
       ELSE IF StartsWith(bare, <<".", "/">>) THEN Substring(bare, 2)
       ELSE IF StartsWith(bare, <<"/">>) THEN Substring(bare, 1)
       ELSE bare

SlugChar(c) ==
    IF c = "X" THEN "x" ELSE IF c = "Y" THEN "y" ELSE IF c = " " THEN "-" ELSE c

\* Path.slugify(enabled): lower case, space -> dash; identity when disabled.
Slugify(path, enabled) ==
    IF enabled THEN [i \in 1..Len(path) |-> SlugChar(path[i])] ELSE path

\* Path.setExtension(ext): replaces the extension of the last segment, or adds one.
SetExtension(path, ext) ==
    LET dots == {i \in 1..Len(path) :
                    path[i] = "." /\ \A j \in (i + 1)..Len(path) : path[j] \notin {".", "/"}}
    IN IF dots = {} THEN path \o <<".">> \o ext
       ELSE LET k == CHOOSE i \in dots : TRUE
            IN SubSeq(path, 1, k) \o ext

(***************************************************************************)
(* Heading-anchor allocation and link resolution                           *)
(***************************************************************************)

\* The normalisation shared by remapLinks and resolveLink.
NormalizeHeader(text) ==
    ReplaceAll(ReplaceAll(ReplaceAll(text, <<" ">>, <<"_">>), <<":">>, <<>>),
               <<"_","_">>, <<"_">>)

EmptyMap == [k \in {} |-> <<>>]

MapHas(m, k) == k \in DOMAIN m
MapGet(m, k) == IF k \in DOMAIN m THEN m[k] ELSE Undefined
MapSet(m, k, v) == [x \in DOMAIN m \cup {k} |-> IF x = k THEN v ELSE m[x]]

\* A variant of NextHeaderId that takes the suffix "0" for no suffix at all.
NextHeaderId_ZeroFalsy(prev) ==
    IF Truthy(prev) /\ prev # <<"0">> THEN ToDecimal(ToNumber(prev) + 1) ELSE <<"0">>

\* The suffix remapLinks gives the next heading whose map entry is `prev`.
NextHeaderId(prev) ==
    IF Truthy(prev) THEN ToDecimal(ToNumber(prev) + 1) ELSE <<"0">>

RECURSIVE AllocateHeadings(_, _, _)
\* The heading pass of remapLinks over the headings from position i on:
\* the resulting [map, hs].
AllocateHeadings(hs, i, map) ==
    IF i > Len(hs) THEN [map |-> map, hs |-> hs]
    ELSE LET headerText == NormalizeHeader(hs[i].text)
             headerId == NextHeaderId(MapGet(map, headerText))
         IN AllocateHeadings(
                [hs EXCEPT ![i].id = headerText \o <<"_">> \o headerId],
                i + 1,
                MapSet(map, headerText, headerId))

\* A variant of IsLeftAsIs that forgets mailto: links.
IsLeftAsIs_NoMailto(link) ==
    \/ ~StartsWith(link, <<"a","p","p",":","/","/">>) /\ MatchesUrlScheme(link)
    \/ StartsWith(link, <<"d","a","t","a",":">>)
    \/ StartsWith(link, <<"?">>)

\* The early returns of resolveLink (lines 1045-1052): external URLs except
\* app://, data URIs, query-only references and mailto links.
IsLeftAsIs(link) ==
    \/ ~StartsWith(link, <<"a","p","p",":","/","/">>) /\ MatchesUrlScheme(link)
    \/ StartsWith(link, <<"d","a","t","a",":">>)
    \/ StartsWith(link, <<"?">>)
    \/ StartsWith(link, <<"m","a","i","l","t","o",":">>)

\* A variant of HeaderAnchor that names the suffix after the stored one.
HeaderAnchor_NextSuffix(map, headerText) ==
    <<"#">> \o headerText \o <<"_">> \o NextHeaderId(MapGet(map, headerText))

\* `#${headerText}_${this.headerMap.get(headerText)}` (lines 1060, 1100).
HeaderAnchor(map, headerText) ==
    <<"#">> \o headerText \o <<"_">> \o ToText(MapGet(map, headerText))

\* resolveLink on a link that starts with "#", lines 1059-1067.
ResolveHeaderLink(map, targetPath, opts, link, headerText) ==
    IF MapHas(map, headerText)
    THEN IF ~opts.relativeHeaderLinks THEN targetPath \o HeaderAnchor(map, headerText)
         ELSE HeaderAnchor(map, headerText)
    ELSE link

\* if (cond) text += suffix
AppendIf(text, cond, suffix) == IF Truthy(cond) THEN text \o suffix ELSE text

\* No file in the Index, lines 1082-1088: the slugified path with the html
\* extension, then the query, then the fragment.
ResolveUnknownFile(attachmentPath, opts, query, hash) ==
    AppendIf(AppendIf(SetExtension(Slugify(attachmentPath, opts.slugifyPaths), HtmlExt),
                      query, <<"?">> \o query),
             hash, <<"#">> \o hash)

\* Lines 1091-1092: finalHash = hash; if (finalHash != "") finalHash = "#" + finalHash.
PrefixHash(hash) == IF hash # <<>> THEN <<"#">> \o ToText(hash) ELSE hash

\* Lines 1094-1103: for an HTML target the fragment is looked up in THIS
\* page's heading map (headerText is the normalised finalHash).
FinalHash(map, attachment, finalHash, headerText) ==
    IF attachment.isHtml /\ MapHas(map, headerText)
    THEN HeaderAnchor(map, headerText)
    ELSE finalHash

\* A file of the Index, lines 1091-1111: its target path, then the query,
\* then the final fragment.
ResolveKnownFile(map, attachment, query, finalHash) ==
    AppendIf(AppendIf(attachment.targetPath, query, <<"?">> \o query),
             FinalHash(map, attachment, finalHash,
                       Substring(NormalizeHeader(finalHash), 1)),
             FinalHash(map, attachment, finalHash,
                       Substring(NormalizeHeader(finalHash), 1)))

\* Lines 1078-1111 for the resolved pathname and the Index's answer.
ResolveFileLink(map, opts, attachmentPath, attachment, query, hash) ==
    IF ~attachment.found
    THEN ResolveUnknownFile(attachmentPath, opts, query, hash)
    ELSE ResolveKnownFile(map, attachment, query, PrefixHash(hash))

\* Lines 1073-1078: path, hash and query of the split link.
ResolveParts(map, opts, attachmentPath, hash, query, preferAttachment) ==
    ResolveFileLink(map, opts, attachmentPath,
                    IndexGetFile(attachmentPath, preferAttachment), query, hash)

\* Lines 1071-1072: the link is split at "?" first; the part before the
\* first "?" is split at "#".
ResolveSplit(map, opts, querySplit, hashSplit, preferAttachment) ==
    ResolveParts(map, opts, GetFilePathFromSrc(hashSplit[1]), PartTrim(hashSplit, 2),
                 PartTrim(querySplit, 2), preferAttachment)

ResolveQuerySplit(map, opts, querySplit, preferAttachment) ==
    ResolveSplit(map, opts, querySplit, Split(querySplit[1], "#"), preferAttachment)

\* Webpage.resolveLink(link, linkEl, preferAttachment) of a page with heading
\* map `map` and target path `targetPath`; dataHref is linkEl's data-href.
ResolveLink(map, targetPath, opts, link, dataHref, preferAttachment) ==
    IF ~Truthy(link) THEN <<>>
    ELSE IF IsLeftAsIs(link) THEN Undefined
    ELSE IF StartsWith(link, <<"#">>)
    THEN ResolveHeaderLink(map, targetPath, opts, link,
             Substring(NormalizeHeader(IF dataHref # Undefined THEN dataHref ELSE link), 1))
    ELSE ResolveQuerySplit(map, opts, Split(link, "?"), preferAttachment)

(***************************************************************************)
(* The remap passes of build()                                             *)
(***************************************************************************)

\* An element carrying a reference: <a href>, <img src>, <iframe src>,
\* <model-viewer src>.  orig is the value the renderer produced (kept for the
\* properties); unresolved is the is-unresolved class; targetSelf is target=_self.
Element(tag, value, dataHref, unresolved) ==
    [tag |-> tag, value |-> value, orig |-> value, dataHref |-> dataHref,
     unresolved |-> unresolved, targetSelf |-> FALSE]

HasHref(el) == el.tag = "a"
HasSrc(el) == el.tag \in {"img", "iframe", "model-viewer"}

\* The attribute writes of one loop iteration (lines 1141-1143): value <-
\* newRef ?? ref ?? "", target=_self, is-unresolved toggled by !newRef.
SetReference(el, newRef, setTarget) ==
    [el EXCEPT !.value = IF newRef # Undefined THEN newRef ELSE el.value,
               !.targetSelf = IF setTarget THEN TRUE ELSE el.targetSelf,
               !.unresolved = ~Truthy(newRef)]

\* One iteration of the loops of remapLinks / remapEmbedLinks on element el.
RemapElement(el, map, targetPath, opts, preferAttachment, setTarget) ==
    SetReference(el,
                 ResolveLink(map, targetPath, opts, el.value, el.dataHref, preferAttachment),
                 setTarget)

\* A loop over the elements with one of the tags.
RemapTagged(els, tags, map, targetPath, opts, preferAttachment, setTarget) ==
    [i \in 1..Len(els) |->
        IF els[i].tag \in tags
        THEN RemapElement(els[i], map, targetPath, opts, preferAttachment, setTarget)
        ELSE els[i]]

\* A variant of HrefLoop whose link resolution enters the fragment of every
\* same-document link it meets into the header map.
HrefLoop_Registering(alloc, els, targetPath, opts) ==
    [headings |-> alloc.hs,
     headerMap |-> [k \in DOMAIN alloc.map \cup
                            {NormalizeHeader(els[i].value) : i \in {j \in 1..Len(els) : HasHref(els[j])}} |->
                       IF k \in DOMAIN alloc.map THEN alloc.map[k] ELSE <<"0">>],
     elems |-> RemapTagged(els, {"a"}, alloc.map, targetPath, opts, FALSE, TRUE)]

\* The href loop of remapLinks (lines 1137-1144) after the heading pass.
\* resolveLink only asks the header map (has, get): the map the loop leaves
\* is the one the heading pass made.
HrefLoop(alloc, els, targetPath, opts) ==
    [headings |-> alloc.hs,
     headerMap |-> alloc.map,
     elems |-> RemapTagged(els, {"a"}, alloc.map, targetPath, opts, FALSE, TRUE)]

\* A variant of RemapLinks that runs the href loop before the heading pass.
RemapLinks_HrefLoopFirst(page, targetPath, opts) ==
    [headings |-> AllocateHeadings(page.headings, 1, page.headerMap).hs,
     headerMap |-> AllocateHeadings(page.headings, 1, page.headerMap).map,
     elems |-> RemapTagged(page.elems, {"a"}, page.headerMap, targetPath, opts, FALSE, TRUE)]

\* Webpage.remapLinks of a page [headings, headerMap, elems] with target path
\* targetPath: the heading pass, then the href loop.
RemapLinks(page, targetPath, opts) ==
    HrefLoop(AllocateHeadings(page.headings, 1, page.headerMap), page.elems,
             targetPath, opts)

\* Webpage.remapEmbedLinks: the [src] loop, then the iframe loop, then the
\* model-viewer loop (which sets no target attribute).
RemapEmbedLinks(page, targetPath, opts) ==
    [page EXCEPT !.elems =
        RemapTagged(
            RemapTagged(
                RemapTagged(page.elems, {"img", "iframe", "model-viewer"},
                            page.headerMap, targetPath, opts, TRUE, TRUE),
                {"iframe"}, page.headerMap, targetPath, opts, TRUE, TRUE),
            {"model-viewer"}, page.headerMap, targetPath, opts, TRUE, FALSE)]

\* The iframe loop of remapEmbedLinks (lines 1189-1198) on the slide iframes
\* of the page: document.querySelectorAll("iframe") leaves no iframe out, the
\* ones of handleAdvancedSlidesEmbeds included (only srcLinkElements, lines
\* 477-481, filters them), and writes newSrc ?? src ?? "" to each.
RemapSlideIframe(ph, map, targetPath, opts) ==
    IF ph.kind # "iframe" THEN ph
    ELSE LET newSrc == ResolveLink(map, targetPath, opts, ph.src, Undefined, TRUE)
         IN [ph EXCEPT !.src = IF newSrc # Undefined THEN newSrc ELSE ph.src]

RemapSlideIframes(dom, map, targetPath, opts) ==
    [i \in 1..Len(dom) |-> RemapSlideIframe(dom[i], map, targetPath, opts)]

PageOf(p) == [headings |-> headings[p], headerMap |-> headerMap[p], elems |-> elems[p]]

\* The page document and heading map after the passes.
StorePage(p, after) ==
    /\ headings' = [headings EXCEPT ![p] = after.headings]
    /\ headerMap' = [headerMap EXCEPT ![p] = after.headerMap]
    /\ elems' = [elems EXCEPT ![p] = after.elems]

\* build(), lines 515-519: with fixLinks, remapLinks then remapEmbedLinks, in
\* one synchronous block.  build() does not look at what renderDocument
\* returned, nor at whether it ran.
BuildFixLinks(p) ==
    /\ stage[p] \in {"created", "aborted", "rendered"}
    /\ StorePage(p, IF exportOptions.fixLinks
                    THEN RemapEmbedLinks(RemapLinks(PageOf(p), PageTarget(p), exportOptions),
                                         PageTarget(p), exportOptions)
                    ELSE PageOf(p))
    /\ embeds' = [embeds EXCEPT ![p] =
                     IF exportOptions.fixLinks
                     THEN RemapSlideIframes(@, RemapLinks(PageOf(p), PageTarget(p),
                                                          exportOptions).headerMap,
                                            PageTarget(p), exportOptions)
                     ELSE @]
    /\ stage' = [stage EXCEPT ![p] = "linksDone"]
    /\ UNCHANGED <<exportOptions, sourceBlocks, attachments, embedCache, objects, pc, cur,
                   calls, renderCalls, renderOk, assetsPromise, assetWalks, lifeVars,
                   exportRun>>

(***************************************************************************)
(* Inputs of the link specification                                        *)
(***************************************************************************)

MaxHeadings == 3

\* Heading texts: "a", "a:", "a b", "a_0".
HeadingTexts == {<<"a">>, <<"a",":">>, <<"a"," ","b">>, <<"a","_","0">>}

\* Heading texts of the page other pages link to: "a", "a b".
TargetHeadingTexts == {<<"a">>, <<"a"," ","b">>}

SeqsUpTo(S, n) == UNION {[1..k -> S] : k \in 0..n}

Heading(text) == [text |-> text, id |-> <<>>]

Https == <<"h","t","t","p","s",":","/","/">>
QMd == <<"q",".","m","d">>
PMd == <<"p",".","m","d">>
Missing == <<"X"," ","y",".","m","d">>

HrefPool ==
    { Element("a", <<"#","a">>, Undefined, FALSE),
      Element("a", <<"#","a"," ","b">>, Undefined, FALSE),
      Element("a", <<"#","z">>, Undefined, FALSE),
      Element("a", <<"#","z">>, <<"#","a"," ","b">>, FALSE),
      Element("a", QMd \o <<"#","a">>, Undefined, FALSE),
      Element("a", QMd \o <<"?","k","#","a">>, Undefined, FALSE),
      Element("a", QMd \o <<"#","a","?","k">>, Undefined, FALSE),
      Element("a", QMd, Undefined, FALSE),
      Element("a", PMd \o <<"#","a">>, Undefined, FALSE),
      Element("a", <<"a","p","p",":","/","/","e","/">> \o QMd, Undefined, FALSE),
      Element("a", Missing \o <<"?","k">>, Undefined, TRUE),
      Element("a", Missing \o <<"#","a">>, Undefined, TRUE),
      Element("a", Https \o <<"e">>, Undefined, FALSE),
      Element("a", <<"s",":","\\","\\","e">>, Undefined, FALSE),
      Element("a", <<"m","a","i","l","t","o",":","e">>, Undefined, FALSE),
      Element("a", <<"?","k">>, Undefined, FALSE),
      Element("a", <<"d","a","t","a",":","e">>, Undefined, FALSE) }

SrcPool ==
    { Element("img", ImageSource, Undefined, FALSE),
      Element("img", <<"/">> \o ImageSource, Undefined, FALSE),
      Element("img", <<"n",".","p","n","g">>, Undefined, FALSE),
      Element("img", Https \o <<"e","/">> \o ImageSource, Undefined, FALSE),
      Element("img", <<"d","a","t","a",":","e">>, Undefined, FALSE),
      Element("iframe", QMd \o <<"#","a">>, Undefined, FALSE),
      Element("iframe", Https \o <<"e">>, Undefined, FALSE),
      Element("iframe", <<"?","k">>, Undefined, FALSE),
      Element("model-viewer", ImageSource, Undefined, FALSE),
      Element("model-viewer", <<"m","a","i","l","t","o",":","e">>, Undefined, FALSE) }

\* The documents of the linking page: resolveLink treats every element on its
\* own, so one reference-bearing element per document covers the loops.
DocPool == {<<>>} \cup {<<el>> : el \in HrefPool \cup SrcPool}

OptionPool ==
    { [fixLinks |-> TRUE, relativeHeaderLinks |-> TRUE, slugifyPaths |-> TRUE],
      [fixLinks |-> TRUE, relativeHeaderLinks |-> FALSE, slugifyPaths |-> TRUE],
      [fixLinks |-> TRUE, relativeHeaderLinks |-> TRUE, slugifyPaths |-> FALSE],
      [fixLinks |-> FALSE, relativeHeaderLinks |-> TRUE, slugifyPaths |-> TRUE] }

\* The embed side of a run in which no page has asked for its attachments.
EmbedIdle ==
    /\ sourceBlocks = [p \in Pages |-> <<>>]
    /\ embeds = [p \in Pages |-> <<>>]
    /\ attachments = [p \in Pages |-> <<>>]
    /\ embedCache = <<>>
    /\ objects = <<>>
    /\ pc = [p \in Pages |-> "idle"]
    /\ cur = [p \in Pages |-> <<>>]
    /\ calls = [p \in Pages |-> 0]
    /\ renderCalls = <<>>
    /\ renderOk = <<>>
    /\ assetsPromise = "unset"
    /\ assetWalks = 0
    /\ exportRun = 1

\* A page whose Webpage has not gone through construction, renderDocument()
\* and build() in the model: the document type is the default, no call has
\* returned, nothing is captured.  saw is what the last renderDocument() met:
\* the template's container, the renderer's content element, the flag.
NoOutput == <<"none">>
\* inlined, mediaAt: the position of build()'s inlineMedia call (none:
\* not called; running, about to look at element mediaAt; returned).
NoLife == [targetPath |-> Undefined, type |-> "markdown", rendered |-> "none",
           saw |-> <<>>, built |-> "none", html |-> NoOutput,
           inlined |-> "none", mediaAt |-> 0]
NoTags == [frontmatter |-> [shape |-> "absent", items |-> <<>>], inline |-> <<>>,
           allTags |-> <<>>, read |-> FALSE]

\* No query of a page has been called directly.
NoCall == [method |-> "none", page |-> 0, link |-> <<>>, preferAttachment |-> FALSE,
           result |-> <<>>]

\* A vault nobody looks a slide up in.
NoVault == [files |-> <<>>, linkDest |-> Undefined, plugin |-> "absent"]

\* The two sidebars of a page of the site.
Sides == {"left", "right"}
Other(side) == IF side = "left" THEN "right" ELSE "left"

\* A Sidebar after its constructor: _collapsed has no initializer and the
\* constructor does not assign it, so it is undefined until the first
\* assignment (assigned = FALSE; collapsed then holds no value that is read).
\* collapseEl is the icon inside the container ("inner") or a toggle of the
\* global topbar that names the sidebar ("global").
\* _resizing has no initializer either (read as false until assigned).
\* moveListener: resizeMove listens to the document's pointermove;
\* upHandlers: the number of pointerup listeners handleClick has put on the
\* document; width: the inline --sidebar-width (0: not set, the style sheet's
\* value holds); saved: localStorage's '<sidebarID>-width' entry (<<>>: no
\* entry).  held is no state of the program: the pointer went down on the
\* handle and has not come up since.
NewSidebar(toggle) ==
    [assigned |-> FALSE, collapsed |-> FALSE, isCollapsedClass |-> FALSE, toggle |-> toggle,
     resizing |-> FALSE, moveListener |-> FALSE, upHandlers |-> 0, width |-> 0,
     saved |-> <<>>, held |-> FALSE]

\* A click target: the content of a sidebar's container, a sidebar's toggle,
\* or anything else on the page.
Target(kind, side) == [kind |-> kind, side |-> side]
Elsewhere == Target("elsewhere", "none")

\* No event has happened on the page.
NoEvent == [kind |-> "none", target |-> Elsewhere, width |-> 0, device |-> "desktop",
            calls |-> <<>>, heard |-> <<>>]

\* The site's front end with nothing done to it.
SiteIdle ==
    /\ deviceSize = "desktop"
    /\ sidebars = [side \in Sides |-> NewSidebar("global")]
    /\ bodyListeners = <<>>
    /\ siteEvent = NoEvent

\* No page built, no metadata read, no query called.
PagesIdle ==
    /\ life = [p \in Pages |-> NoLife]
    /\ metadata = NoTags
    /\ call = NoCall

\* The lifecycle and metadata side of a run that looks at neither.
LifeIdle ==
    /\ PagesIdle
    /\ vault = NoVault
    /\ SiteIdle

InitLinks ==
    /\ exportOptions \in OptionPool
    /\ \E h1 \in SeqsUpTo(HeadingTexts, MaxHeadings) :
          \E h2 \in SeqsUpTo(TargetHeadingTexts, MaxHeadings - Len(h1)) :
             headings = <<[i \in 1..Len(h1) |-> Heading(h1[i])],
                          [i \in 1..Len(h2) |-> Heading(h2[i])]>>
    /\ headerMap = [p \in Pages |-> EmptyMap]
    /\ \E d \in DocPool : elems = <<d, <<>>>>
    /\ stage = [p \in Pages |-> "rendered"]
    /\ EmbedIdle
    /\ LifeIdle

NextLinks ==
    \E p \in Pages : BuildFixLinks(p)

SpecLinks == InitLinks /\ [][NextLinks]_vars

(***************************************************************************)
(* getAttachments(): Advanced-Slides embeds, then the src attributes        *)
(***************************************************************************)

\* Slide files of the vault and the (slide file, page) keys pages embed.
Keys == {<<"S", 0>>, <<"T", 0>>}

\* Media files of the vault that the Index does not hold.
LooseImage == <<"n",".","p","n","g">>
SlideImage == <<"m",".","p","n","g">>
VaultFiles == {ImageSource, LooseImage, SlideImage}

\* The local src references inside the fragment the renderer returns for a
\* slide file: deck S shows one image, deck T none.
FragmentMedia(key) == IF key[1] = "S" THEN <<SlideImage>> ELSE <<>>

\* Attachment objects.  Object identity is the position in `objects`.
IndexedImage == [kind |-> "indexed", sourcePath |-> ImageSource, key |-> <<>>]

\* The object Index.getFile(pathname) returns in the embed specification
\* (0: none): the Index holds the image.
IndexObject(pathname) == IF pathname = ImageSource THEN 1 ELSE 0

Includes(list, obj) == \E i \in 1..Len(list) : list[i] = obj

\* A variant of PushNew that pushes without looking.
PushNew_Always(list, obj) == Append(list, obj)

\* if (!list.includes(obj)) list.push(obj)
PushNew(list, obj) == IF Includes(list, obj) THEN list ELSE Append(list, obj)

\* this.attachments.find(a => a.sourcePath == sourcePath) (0: none).
FindBySource(list, sourcePath) ==
    LET hits == {i \in 1..Len(list) : objects[list[i]].sourcePath = sourcePath}
    IN IF hits = {} THEN 0
       ELSE list[CHOOSE i \in hits : \A j \in hits : i <= j]

\* A placeholder of the rendered page: an iframe of a slide preview, a slide
\* code block, or a plain <pre> holding a slide block the host did not mark.
\* live: the src still is the preview URL (/embed/<slide>#/<page>).
\* The file name of the slide file of a key: deck S is X.md, deck T is t.md.
SlideBase(key) == IF key[1] = "S" THEN <<"X">> ELSE <<"t">>

\* The src the host's renderer gives a slide iframe: its preview URL.
PreviewUrl(key) == Https \o <<"e", "/">> \o SlideBase(key)

\* getAdvancedSlidesEmbedTargetPath, lines 742-750, for a slide file at the
\* vault root: <embedRoot>/<basename>-page-<page>.html (embedRoot: l, and
\* "-page-" shortened to "-").  The path is built from the name of the slide
\* file as it is; none of the lines slugifies it.
EmbedTargetPath(key) ==
    <<"l", "/">> \o SlideBase(key) \o <<"-">> \o ToDecimal(key[2]) \o <<".">> \o HtmlExt

\* Line 903: Path.getRelativePath(this.targetPath, embedAttachment.targetPath);
\* the pages are at the root of the site, and the Attachment of line 898 has
\* the target path it was constructed with.
IframeSrc(key) == EmbedTargetPath(key)

Placeholder(kind, key) ==
    [kind |-> kind, key |-> key, exported |-> FALSE,
     slidesEmbed |-> FALSE, live |-> kind = "iframe", obj |-> 0,
     src |-> IF kind = "iframe" THEN PreviewUrl(key) ELSE <<>>]

\* Discovery (lines 838-874): the iframes, then the slide code blocks, then,
\* when there is no slide code block, the blocks of the source text.
Discover(p) ==
    LET dom == embeds[p]
        pick(kind, loop) ==
            LET idx == {i \in 1..Len(dom) : dom[i].kind = kind}
                RECURSIVE from(_)
                from(i) == IF i > Len(dom) THEN <<>>
                           ELSE IF i \in idx
                           THEN <<[loop |-> loop, at |-> i, key |-> dom[i].key]>> \o from(i + 1)
                           ELSE from(i + 1)
            IN from(1)
        iframeEmbeds == pick("iframe", "iframe")
        slideBlocks == pick("code", "code")
        fallback == IF slideBlocks = <<>>
                    THEN [i \in 1..Len(sourceBlocks[p]) |->
                             [loop |-> "fallback", at |-> i, key |-> sourceBlocks[p][i]]]
                    ELSE <<>>
    IN iframeEmbeds \o slideBlocks \o fallback

\* The position of a page inside getAttachments(): the embeds still to
\* process, the <pre> blocks the fallback loop looks through (line 984), the
\* src values and the position in them.  took and after are no state of the
\* program: took records, over all calls, the (source path, Attachment) pairs
\* the src loop resolved; after, how the page's call before this one ended
\* (idle: there was none).
Idle == [work |-> <<>>, i |-> 1, pres |-> {}, srcs |-> <<>>, j |-> 1, took |-> {},
         after |-> "idle"]

PreBlocks(dom) == {i \in 1..Len(dom) : dom[i].kind = "pre"}

TotalCalls == calls[1] + calls[2]

MaxCalls == 2

\* A variant of StartsAssetWalk that does not look at the installed promise.
StartsAssetWalk_Always(promise) == TRUE

\* ensureAdvancedSlidesAssets, line 639: a caller that finds a promise
\* installed awaits it; only a caller that finds none starts the walk.
StartsAssetWalk(promise) == promise = "unset"

\* getAttachments() is entered: handleAdvancedSlidesEmbeds discovers the
\* embeds and, if there are any, asks for the renderer's assets, starting the
\* walk of the asset folders when no promise is installed yet (lines 639-641).
EnterGetAttachments(p) ==
    /\ pc[p] \in {"idle", "done", "failed"}
    /\ calls' = [calls EXCEPT ![p] = @ + 1]
    /\ LET work == Discover(p)
       IN /\ cur' = [cur EXCEPT ![p] = [Idle EXCEPT !.work = work,
                                                     !.pres = PreBlocks(embeds[p]),
                                                     !.took = cur[p].took,
                                                     !.after = pc[p]]]
          /\ IF work = <<>>
             THEN /\ pc' = [pc EXCEPT ![p] = "src"]
                  /\ UNCHANGED <<assetsPromise, assetWalks>>
             ELSE /\ pc' = [pc EXCEPT ![p] = "assets"]
                  /\ IF StartsAssetWalk(assetsPromise)
                     THEN /\ assetsPromise' = "pending"
                          /\ assetWalks' = assetWalks + 1
                     ELSE UNCHANGED <<assetsPromise, assetWalks>>
    /\ UNCHANGED <<linkVars, lifeVars, exportRun, sourceBlocks, embeds, attachments, embedCache, objects,
                   renderCalls, renderOk>>

\* getAttachments() is called, within the number of calls looked at.
GetAttachments(p) ==
    /\ TotalCalls < MaxCalls
    /\ EnterGetAttachments(p)

AssetObjects == {i \in 1..Len(objects) : objects[i].kind = "asset"}

\* The walk of the asset folders ends: the shared promise resolves to the
\* array of asset Attachments (lines 641-690).
AssetsWalkDone ==
    /\ assetsPromise = "pending"
    /\ assetsPromise' = "resolved"
    /\ objects' = Append(objects, [kind |-> "asset", sourcePath |-> <<"/","d","i","s","t">>,
                                    key |-> <<>>])
    /\ UNCHANGED <<linkVars, lifeVars, exportRun, sourceBlocks, embeds, attachments, embedCache, pc, cur,
                   calls, renderCalls, renderOk, assetWalks>>

RECURSIVE PushAll(_, _)
PushAll(list, objs) ==
    IF objs = {} THEN list
    ELSE LET o == CHOOSE x \in objs : \A y \in objs : x <= y
         IN PushAll(PushNew(list, o), objs \ {o})

\* The page resumes with the assets (lines 876-879).
AssetsJoin(p) ==
    /\ pc[p] = "assets"
    /\ assetsPromise = "resolved"
    /\ attachments' = [attachments EXCEPT ![p] = PushAll(@, AssetObjects)]
    /\ pc' = [pc EXCEPT ![p] = "loop"]
    /\ UNCHANGED <<linkVars, lifeVars, exportRun, sourceBlocks, embeds, embedCache, objects, cur, calls,
                   renderCalls, renderOk, assetsPromise, assetWalks>>

Task(p) == cur[p].work[cur[p].i]

Bump(m, k) == MapSet(m, k, IF MapHas(m, k) THEN m[k] + 1 ELSE 1)
Count(m, k) == IF MapHas(m, k) THEN m[k] ELSE 0

\* What follows a processEmbed call in its loop: the iframe loop marks the
\* iframe exported (line 934); the code-block loop replaces the block by the
\* container of the new iframe (lines 971-980); the fallback loop replaces the
\* first <pre> with the block's text, if it still is in the document (lines
\* 1002-1006).  embedded: processEmbed reached lines 903-908 with object obj.
AfterProcessEmbed(dom, task, pres, embedded, obj) ==
    LET spliced(ph) == [ph EXCEPT !.kind = "iframe", !.live = FALSE,
                                  !.slidesEmbed = embedded, !.obj = obj,
                                  !.src = IF embedded THEN IframeSrc(ph.key) ELSE <<>>]
    IN IF task.loop = "iframe"
       THEN [dom EXCEPT ![task.at] =
                IF embedded
                THEN [@ EXCEPT !.exported = TRUE, !.slidesEmbed = TRUE, !.live = FALSE,
                               !.obj = obj, !.src = IframeSrc(task.key)]
                ELSE [@ EXCEPT !.exported = TRUE]]
       ELSE IF task.loop = "code"
       THEN [dom EXCEPT ![task.at] = spliced(@)]
       ELSE LET matching == {i \in pres : dom[i].key = task.key}
            IN IF matching = {} THEN dom
               ELSE LET matchedPre == CHOOSE i \in matching : \A j \in matching : i <= j
                    IN IF dom[matchedPre].kind = "pre"
                       THEN [dom EXCEPT ![matchedPre] = spliced(@)]
                       ELSE dom

\* The next embed of the loops: an iframe already exported, or whose src is no
\* preview URL, is passed over (lines 912-923); otherwise processEmbed looks
\* the key up in the embed cache (line 883) and, on a miss, calls
\* renderer.renderFile (line 892).  After the last embed the src loop follows.
StartEmbed(p) ==
    /\ pc[p] = "loop"
    /\ IF cur[p].i > Len(cur[p].work)
       THEN /\ pc' = [pc EXCEPT ![p] = "src"]
            /\ UNCHANGED <<embeds, attachments, cur, renderCalls>>
       ELSE LET task == Task(p)
                ph == embeds[p][task.at]
            IN IF task.loop = "iframe" /\ (ph.exported \/ ~ph.live)
               THEN /\ cur' = [cur EXCEPT ![p].i = @ + 1]
                    /\ UNCHANGED <<pc, embeds, attachments, renderCalls>>
               ELSE IF MapHas(embedCache, task.key)
               THEN /\ attachments' = [attachments EXCEPT
                                          ![p] = PushNew(@, embedCache[task.key])]
                    /\ embeds' = [embeds EXCEPT
                                     ![p] = AfterProcessEmbed(@, task, cur[p].pres, TRUE,
                                                              embedCache[task.key])]
                    /\ cur' = [cur EXCEPT ![p].i = @ + 1]
                    /\ UNCHANGED <<pc, renderCalls>>
               ELSE /\ renderCalls' = Bump(renderCalls, task.key)
                    /\ pc' = [pc EXCEPT ![p] = "render"]
                    /\ UNCHANGED <<embeds, attachments, cur>>
    /\ UNCHANGED <<linkVars, lifeVars, exportRun, sourceBlocks, embedCache, objects, calls, renderOk,
                   assetsPromise, assetWalks>>

\* Whether rewriteAdvancedSlidesHtml has to create an Attachment for the
\* fragment's media (lines 799-803): the Index does not hold it.
FragmentNeedsCreate(key) ==
    /\ FragmentMedia(key) # <<>>
    /\ IndexObject(GetFilePathFromSrc(FragmentMedia(key)[1])) = 0

\* A variant of AfterFailedRender that remembers the failure under the key.
AfterFailedRender_Cached(cache, key) == MapSet(cache, key, 0)

\* The embed cache after a render that returned nothing: processEmbed
\* returns before line 900, the cache is as it was (lines 893-896).
AfterFailedRender(cache, key) == cache

\* renderer.renderFile settles: with HTML (the rewrite of the fragment
\* starts), with nothing (warning, processEmbed returns, lines 893-896), or
\* by throwing (nothing catches it: getAttachments() rejects).
RenderReturn(p, outcome) ==
    /\ pc[p] = "render"
    /\ LET task == Task(p)
       IN CASE outcome = "html" ->
                 /\ renderOk' = Bump(renderOk, task.key)
                 /\ pc' = [pc EXCEPT ![p] = IF FragmentNeedsCreate(task.key)
                                            THEN "fragCreate" ELSE "rewritten"]
                 /\ UNCHANGED <<embeds, cur, embedCache>>
            [] outcome = "nothing" ->
                 /\ embedCache' = AfterFailedRender(embedCache, task.key)
                 /\ embeds' = [embeds EXCEPT ![p] = AfterProcessEmbed(@, task, cur[p].pres, FALSE, 0)]
                 /\ cur' = [cur EXCEPT ![p].i = @ + 1]
                 /\ pc' = [pc EXCEPT ![p] = "loop"]
                 /\ UNCHANGED renderOk
            [] outcome = "throw" ->
                 /\ pc' = [pc EXCEPT ![p] = "failed"]
                 /\ UNCHANGED <<embeds, cur, renderOk, embedCache>>
    /\ UNCHANGED <<linkVars, lifeVars, exportRun, sourceBlocks, attachments, objects, calls, renderCalls,
                   assetsPromise, assetWalks>>

\* Website.createAttachmentFromSrc(src, file): a new Attachment for a file of
\* the vault, nothing for a file that does not exist.
CanCreate(src) == GetFilePathFromSrc(src) \in VaultFiles
Created(src) == [kind |-> "media", sourcePath |-> GetFilePathFromSrc(src), key |-> <<>>]

\* addEmbedAttachment settles inside rewriteAdvancedSlidesHtml (lines
\* 786-803): the new Attachment joins this page's attachments.  Its key is no
\* state of the program: it records the embed whose fragment it was created for.
FragmentCreateReturn(p) ==
    /\ pc[p] = "fragCreate"
    /\ LET src == FragmentMedia(Task(p).key)[1]
       IN IF CanCreate(src)
          THEN /\ objects' = Append(objects, [Created(src) EXCEPT !.key = Task(p).key])
               /\ attachments' = [attachments EXCEPT ![p] = PushNew(@, Len(objects) + 1)]
          ELSE UNCHANGED <<objects, attachments>>
    /\ pc' = [pc EXCEPT ![p] = "rewritten"]
    /\ UNCHANGED <<linkVars, lifeVars, exportRun, sourceBlocks, embeds, embedCache, cur, calls, renderCalls,
                   renderOk, assetsPromise, assetWalks>>

\* The rest of processEmbed after the rewrite (lines 899-908): a new embed
\* Attachment is stored in the cache and pushed, the iframe points at it.
FinishEmbed(p) ==
    /\ pc[p] = "rewritten"
    /\ LET task == Task(p)
           obj == Len(objects) + 1
       IN /\ objects' = Append(objects, [kind |-> "embed", sourcePath |-> Undefined,
                                          key |-> task.key, run |-> exportRun])
          /\ embedCache' = MapSet(embedCache, task.key, obj)
          /\ attachments' = [attachments EXCEPT ![p] = PushNew(@, obj)]
          /\ embeds' = [embeds EXCEPT ![p] = AfterProcessEmbed(@, task, cur[p].pres, TRUE, obj)]
    /\ cur' = [cur EXCEPT ![p].i = @ + 1]
    /\ pc' = [pc EXCEPT ![p] = "loop"]
    /\ UNCHANGED <<linkVars, lifeVars, exportRun, sourceBlocks, calls, renderCalls, renderOk, assetsPromise,
                   assetWalks>>

\* this.srcLinks: the src values of the page's elements (embedded slide
\* iframes are filtered out, live previews are external URLs).
SrcLinks(p) ==
    LET RECURSIVE from(_)
        from(i) == IF i > Len(elems[p]) THEN <<>>
                   ELSE IF HasSrc(elems[p][i]) THEN <<elems[p][i].value>> \o from(i + 1)
                   ELSE from(i + 1)
    IN from(1)

\* The test of lines 1017-1019: external URLs and data URIs are passed over.
SkippedSrc(src) ==
    \/ ~StartsWith(src, <<"a","p","p",":","/","/">>) /\ MatchesUrlScheme(src)
    \/ StartsWith(src, <<"d","a","t","a",":">>)

RECURSIVE SrcRun(_, _, _, _)
\* The src loop (lines 1015-1037) from position j on, up to the first src that
\* needs createAttachmentFromSrc: [list, j, took, waiting].
SrcRun(list, srcs, j, took) ==
    IF j > Len(srcs) THEN [list |-> list, j |-> j, took |-> took, waiting |-> FALSE]
    ELSE IF SkippedSrc(srcs[j]) THEN SrcRun(list, srcs, j + 1, took)
    ELSE LET sourcePath == GetFilePathFromSrc(srcs[j])
             found == FindBySource(list, sourcePath)
             known == IF found # 0 THEN found ELSE IndexObject(sourcePath)
         IN IF known = 0 THEN [list |-> list, j |-> j, took |-> took, waiting |-> TRUE]
            ELSE IF sourcePath = <<>> THEN SrcRun(list, srcs, j + 1, took)
            ELSE SrcRun(PushNew(list, known), srcs, j + 1,
                        took \cup {<<sourcePath, known>>})

\* The src loop runs (from its start, or after a created Attachment) until it
\* awaits createAttachmentFromSrc or ends, returning this.attachments.
SrcLoop(p) ==
    /\ pc[p] = "src"
    /\ LET srcs == IF cur[p].j = 1 THEN SrcLinks(p) ELSE cur[p].srcs
           run == SrcRun(attachments[p], srcs, cur[p].j, cur[p].took)
       IN /\ attachments' = [attachments EXCEPT ![p] = run.list]
          /\ cur' = [cur EXCEPT ![p].srcs = srcs, ![p].j = run.j, ![p].took = run.took]
          /\ pc' = [pc EXCEPT ![p] = IF run.waiting THEN "srcCreate" ELSE "done"]
    /\ UNCHANGED <<linkVars, lifeVars, exportRun, sourceBlocks, embeds, embedCache, objects, calls,
                   renderCalls, renderOk, assetsPromise, assetWalks>>

\* createAttachmentFromSrc settles in the src loop (lines 1027-1036).
SrcCreateReturn(p) ==
    /\ pc[p] = "srcCreate"
    /\ LET src == cur[p].srcs[cur[p].j]
       IN IF CanCreate(src) /\ GetFilePathFromSrc(src) # <<>>
          THEN /\ objects' = Append(objects, Created(src))
               /\ attachments' = [attachments EXCEPT ![p] = PushNew(@, Len(objects) + 1)]
               /\ cur' = [cur EXCEPT ![p].j = @ + 1,
                                     ![p].took = @ \cup {<<GetFilePathFromSrc(src),
                                                           Len(objects) + 1>>}]
          ELSE /\ cur' = [cur EXCEPT ![p].j = @ + 1]
               /\ UNCHANGED <<objects, attachments>>
    /\ pc' = [pc EXCEPT ![p] = "src"]
    /\ UNCHANGED <<linkVars, lifeVars, exportRun, sourceBlocks, embeds, embedCache, calls, renderCalls,
                   renderOk, assetsPromise, assetWalks>>

(***************************************************************************)
(* Inputs of the embed specification                                       *)
(***************************************************************************)

Img(src) == Element("img", src, Undefined, FALSE)

\* The src-bearing documents of page 1: none; the indexed image, written
\* relatively and absolutely; a loose image, written relatively and
\* absolutely; the image of deck S and a missing file and an external URL.
SrcDocPool ==
    { <<>>,
      <<Img(ImageSource), Img(<<"/">> \o ImageSource)>>,
      <<Img(LooseImage), Img(<<"/">> \o LooseImage)>>,
      <<Img(SlideImage), Img(<<"z",".","p","n","g">>), Img(Https \o <<"e">>)>> }

\* The slide blocks of the two pages' source text: none; the same slide on
\* both pages; one slide twice on a page; two slides on a page; different
\* slides on the pages.
SlideBlockPool ==
    { << <<>>, <<>> >>,
      << << <<"S", 0>> >>, << <<"S", 0>> >> >>,
      << << <<"T", 0>>, <<"T", 0>> >>, <<>> >>,
      << << <<"S", 0>>, <<"T", 0>> >>, <<>> >>,
      << << <<"T", 0>> >>, << <<"S", 0>> >> >> }

\* How the host rendered the slide blocks of a page.
Renderings == {"iframe", "code", "pre"}

InitEmbeds ==
    /\ exportOptions = [fixLinks |-> TRUE, relativeHeaderLinks |-> TRUE, slugifyPaths |-> TRUE]
    /\ headings = [p \in Pages |-> <<>>]
    /\ headerMap = [p \in Pages |-> EmptyMap]
    /\ stage = [p \in Pages |-> "rendered"]
    /\ \E d \in SrcDocPool : elems = <<d, <<>>>>
    /\ \E b \in SlideBlockPool :
          \E r \in Renderings :
                /\ sourceBlocks = b
                /\ embeds = [p \in Pages |->
                                [i \in 1..Len(sourceBlocks[p]) |->
                                    Placeholder(r, sourceBlocks[p][i])]]
    /\ attachments = [p \in Pages |-> <<>>]
    /\ embedCache = EmptyMap
    /\ objects = <<IndexedImage>>
    /\ pc = [p \in Pages |-> "idle"]
    /\ cur = [p \in Pages |-> Idle]
    /\ calls = [p \in Pages |-> 0]
    /\ renderCalls = EmptyMap
    /\ renderOk = EmptyMap
    /\ assetsPromise = "unset"
    /\ assetWalks = 0
    /\ exportRun = 1
    /\ LifeIdle

NextEmbeds ==
    \/ AssetsWalkDone
    \/ \E p \in Pages :
          \/ GetAttachments(p)
          \/ AssetsJoin(p)
          \/ StartEmbed(p)
          \/ \E outcome \in {"html", "nothing", "throw"} : RenderReturn(p, outcome)
          \/ FragmentCreateReturn(p)
          \/ FinishEmbed(p)
          \/ SrcLoop(p)
          \/ SrcCreateReturn(p)

SpecEmbeds == InitEmbeds /\ [][NextEmbeds]_vars

(***************************************************************************)
(* Export runs                                                             *)
(***************************************************************************)

MaxRuns == 2

\* The next export run of the same process starts: the exporter makes a new
\* Website and new Webpage instances from the same vault, so every page has
\* a fresh document and an empty attachments list.  The statics of the class
\* (lines 60-61) belong to the process: no statement of the class clears or
\* replaces advancedSlidesEmbedCache or advancedSlidesAssetsPromise, and
\* being private they are out of reach of the exporter.
NewExportRun ==
    /\ exportRun < MaxRuns
    /\ \A p \in Pages : pc[p] \in {"done", "failed"}
    /\ exportRun' = exportRun + 1
    /\ \E r \in Renderings :
          embeds' = [p \in Pages |->
                        [i \in 1..Len(sourceBlocks[p]) |->
                            Placeholder(r, sourceBlocks[p][i])]]
    /\ attachments' = [p \in Pages |-> <<>>]
    /\ pc' = [p \in Pages |-> "idle"]
    /\ cur' = [p \in Pages |-> Idle]
    /\ calls' = [p \in Pages |-> 0]
    /\ UNCHANGED <<linkVars, lifeVars, sourceBlocks, embedCache, objects, renderCalls,
                   renderOk, assetsPromise, assetWalks>>

NextRuns == NextEmbeds \/ NewExportRun

SpecRuns == InitEmbeds /\ [][NextRuns]_vars

(***************************************************************************)
(* Repeated calls of getAttachments() on a page                            *)
(***************************************************************************)

MaxCallsPerPage == 2

\* getAttachments() is called on a page, up to MaxCallsPerPage times.
CallGetAttachments(p) ==
    /\ calls[p] < MaxCallsPerPage
    /\ EnterGetAttachments(p)

\* Both pages hold the same slide; page 1 also has an image that is not in
\* the Index.
InitRecall ==
    /\ exportOptions = [fixLinks |-> TRUE, relativeHeaderLinks |-> TRUE, slugifyPaths |-> TRUE]
    /\ headings = [p \in Pages |-> <<>>]
    /\ headerMap = [p \in Pages |-> EmptyMap]
    /\ stage = [p \in Pages |-> "rendered"]
    /\ elems = << <<Img(LooseImage)>>, <<>> >>
    /\ sourceBlocks = << << <<"S", 0>> >>, << <<"S", 0>> >> >>
    /\ \E r \in Renderings :
          embeds = [p \in Pages |->
                       [i \in 1..Len(sourceBlocks[p]) |-> Placeholder(r, sourceBlocks[p][i])]]
    /\ attachments = [p \in Pages |-> <<>>]
    /\ embedCache = EmptyMap
    /\ objects = <<IndexedImage>>
    /\ pc = [p \in Pages |-> "idle"]
    /\ cur = [p \in Pages |-> Idle]
    /\ calls = [p \in Pages |-> 0]
    /\ renderCalls = EmptyMap
    /\ renderOk = EmptyMap
    /\ assetsPromise = "unset"
    /\ assetWalks = 0
    /\ exportRun = 1
    /\ LifeIdle

NextRecall ==
    \/ AssetsWalkDone
    \/ \E p \in Pages :
          \/ CallGetAttachments(p)
          \/ AssetsJoin(p)
          \/ StartEmbed(p)
          \/ \E outcome \in {"html", "nothing", "throw"} : RenderReturn(p, outcome)
          \/ FragmentCreateReturn(p)
          \/ FinishEmbed(p)
          \/ SrcLoop(p)
          \/ SrcCreateReturn(p)

SpecRecall == InitRecall /\ [][NextRecall]_vars

(***************************************************************************)
(* The lifecycle of a page: constructor, renderDocument, build             *)
(***************************************************************************)

\* Object.assign(target, source): the target, written in place, with the
\* source's own properties copied over it; the target is what it returns.
ObjectAssign(target, source) ==
    [k \in DOMAIN target \cup DOMAIN source |->
        IF k \in DOMAIN source THEN source[k] ELSE target[k]]

\* The options argument of the constructor: absent, or a partial object.
OptionChoices == {"absent", "noFixLinks"}
PageOptions(choice) ==
    IF choice = "noFixLinks" THEN [fixLinks |-> FALSE] ELSE EmptyMap

\* A variant of SettingsAfterConstruct that merges the options before the
\* extension is looked at.
SettingsAfterConstruct_MergeFirst(settings, options, convertible) ==
    ObjectAssign(settings, options)

\* Settings.exportOptions after new Webpage(...): the throw of line 72 comes
\* first; line 75 merges the options into Settings.exportOptions itself.
SettingsAfterConstruct(settings, options, convertible) ==
    IF convertible THEN ObjectAssign(settings, options) ELSE settings

\* new Webpage(file, filename, website, options), lines 70-85.  The page's
\* exportOptions is the object Object.assign returned, that is,
\* Settings.exportOptions: all pages and the settings share exportOptions.
Construct(p, convertible, choice) ==
    /\ stage[p] = "fresh"
    /\ stage' = [stage EXCEPT ![p] = IF convertible THEN "created" ELSE "rejected"]
    /\ exportOptions' = SettingsAfterConstruct(exportOptions, PageOptions(choice), convertible)
    /\ life' = [life EXCEPT ![p].targetPath =
                    IF convertible THEN SetExtension(PageSource(p), HtmlExt) ELSE @]
    /\ UNCHANGED <<headings, headerMap, elems, embedVars, exportRun, metadata, call,
                   vault, siteVars>>

\* A variant of RenderResult that does not look at the cancellation flag.
RenderResult_NoCancelCheck(hasContainer, hasContent, cancelled) ==
    IF ~hasContainer \/ ~hasContent THEN "undefined" ELSE "page"

\* What renderDocument() returns (lines 585-593, 610).
RenderResult(hasContainer, hasContent, cancelled) ==
    IF ~hasContainer THEN "undefined"
    ELSE IF ~hasContent THEN "undefined"
    ELSE IF cancelled THEN "undefined"
    ELSE "page"

\* renderInfo?.viewType ?? DocumentType.Markdown (line 596).
ViewTypes == {Undefined, <<"canvas">>}
TypeOf(viewType) == IF viewType = Undefined THEN "markdown" ELSE viewType[1]

\* The content the renderer puts into the container, next to the slide
\* placeholders: a link to a heading of the page and an image.
RenderedDocs ==
    { <<Element("a", <<"#","a">>, Undefined, FALSE), Img(LooseImage)>> }

\* How the host renders the slide blocks of a page.
LifeRenderings == {"iframe", "code"}

RenderedPage(p, doc, rendering, result) ==
    /\ elems' = [elems EXCEPT ![p] = doc]
    /\ headings' = [headings EXCEPT ![p] = IF doc = <<>> THEN <<>> ELSE <<Heading(<<"a">>)>>]
    /\ embeds' = [embeds EXCEPT ![p] =
                      [i \in 1..Len(sourceBlocks[p]) |->
                          Placeholder(rendering, sourceBlocks[p][i])]]
    /\ stage' = [stage EXCEPT ![p] = IF result = "page" THEN "rendered" ELSE "aborted"]

\* renderDocument(), lines 580-611: without the container nothing is
\* rendered; the renderer fills the container and returns its content
\* element (or none); the cancellation flag is read after the render; the
\* type is set only past the three returns.
RenderDocument(p, hasContainer, hasContent, cancelled, viewType, doc, rendering) ==
    /\ stage[p] \in {"created", "aborted"}
    /\ life' = [life EXCEPT ![p].rendered = RenderResult(hasContainer, hasContent, cancelled),
                            ![p].saw = [container |-> hasContainer,
                                        contentEl |-> hasContainer /\ hasContent,
                                        cancelled |-> hasContainer /\ hasContent /\ cancelled],
                            ![p].type = IF RenderResult(hasContainer, hasContent, cancelled) = "page"
                                        THEN TypeOf(viewType) ELSE @]
    /\ IF hasContainer /\ hasContent
       THEN RenderedPage(p, doc, rendering, RenderResult(hasContainer, hasContent, cancelled))
       ELSE /\ stage' = [stage EXCEPT ![p] = "aborted"]
            /\ UNCHANGED <<elems, headings, embeds>>
    /\ UNCHANGED <<exportOptions, headerMap, sourceBlocks, attachments, embedCache, objects,
                   pc, cur, calls, renderCalls, renderOk, assetsPromise, assetWalks,
                   exportRun, metadata, call, vault, siteVars>>

\* The document as this.html serialises it: its elements and placeholders.
Html(p) == [elems |-> elems[p], embeds |-> embeds[p]]

\* build(), line 575 and its return: generateOutput() captures the HTML in
\* outputData (lines 89-116) and build() returns the page.
GenerateOutput(p) ==
    /\ stage[p] = "linksDone"
    /\ stage' = [stage EXCEPT ![p] = "output"]
    /\ life' = [life EXCEPT ![p].html = Html(p), ![p].built = "page"]
    /\ UNCHANGED <<exportOptions, headings, headerMap, elems, embedVars, exportRun, metadata,
                   call, vault, siteVars>>

\* The exporter asks the pages it rendered for their attachments; nothing in
\* getAttachments() looks at how far build() has come.
AskAttachments(p) ==
    /\ stage[p] \in {"rendered", "linksDone", "output"}
    /\ GetAttachments(p)

\* The slide blocks of the two pages' source text: one slide on the first
\* page.
LifeBlockPool == { << << <<"S", 0>> >>, <<>> >> }

InitLifecycle ==
    /\ exportOptions = [fixLinks |-> TRUE, relativeHeaderLinks |-> TRUE, slugifyPaths |-> TRUE]
    /\ headings = [p \in Pages |-> <<>>]
    /\ headerMap = [p \in Pages |-> EmptyMap]
    /\ elems = [p \in Pages |-> <<>>]
    /\ stage = [p \in Pages |-> "fresh"]
    /\ sourceBlocks \in LifeBlockPool
    /\ embeds = [p \in Pages |-> <<>>]
    /\ attachments = [p \in Pages |-> <<>>]
    /\ embedCache = EmptyMap
    /\ objects = <<IndexedImage>>
    /\ pc = [p \in Pages |-> "idle"]
    /\ cur = [p \in Pages |-> Idle]
    /\ calls = [p \in Pages |-> 0]
    /\ renderCalls = EmptyMap
    /\ renderOk = EmptyMap
    /\ assetsPromise = "unset"
    /\ assetWalks = 0
    /\ exportRun = 1
    /\ LifeIdle

\* Construction, renderDocument() and build() of the pages.
NextBuild ==
    \E p \in Pages :
       \/ \E convertible \in BOOLEAN : \E choice \in OptionChoices :
             Construct(p, convertible, choice)
       \/ \E hasContainer, hasContent, cancelled \in BOOLEAN :
             \E viewType \in ViewTypes : \E doc \in RenderedDocs : \E r \in LifeRenderings :
                RenderDocument(p, hasContainer, hasContent, cancelled, viewType, doc, r)
       \/ BuildFixLinks(p)
       \/ GenerateOutput(p)

SpecBuild == InitLifecycle /\ [][NextBuild]_vars

\* The same with the exporter asking the pages for their attachments.
NextLifecycle ==
    \/ NextBuild
    \/ AssetsWalkDone
    \/ \E p \in Pages :
          \/ AskAttachments(p)
          \/ AssetsJoin(p)
          \/ StartEmbed(p)
          \/ \E outcome \in {"html", "nothing", "throw"} : RenderReturn(p, outcome)
          \/ FragmentCreateReturn(p)
          \/ FinishEmbed(p)
          \/ SrcLoop(p)
          \/ SrcCreateReturn(p)

SpecLifecycle == InitLifecycle /\ [][NextLifecycle]_vars

(***************************************************************************)
(* Tags: frontmatterTags, inlineTags, allTags                              *)
(***************************************************************************)

\* frontmatter.tags as the metadata cache gives it: absent (or falsy), one
\* value that is no array, or an array.  items holds the texts.
NoTagsValue == [shape |-> "absent", items |-> <<>>]
ScalarTags(text) == [shape |-> "scalar", items |-> <<text>>]
ArrayTags(items) == [shape |-> "array", items |-> items]

\* A variant of PrefixTag that leaves the tag as written.
PrefixTag_AsWritten(tag) == tag

\* tag.startsWith("#") ? tag : "#" + tag (line 235).
PrefixTag(tag) == IF StartsWith(tag, <<"#">>) THEN tag ELSE <<"#">> \o tag

\* get frontmatterTags (lines 222-238): frontmatter?.tags || [], a value that
\* is no array becomes the array of its text, every text gets its '#'.
FrontmatterTags(value) ==
    IF value.shape = "absent" THEN <<>>
    ELSE [i \in 1..Len(value.items) |-> PrefixTag(value.items[i])]

\* tags.indexOf(tag): the first position that holds the tag (0: none).
IndexOf(tags, tag) ==
    IF \E i \in 1..Len(tags) : tags[i] = tag
    THEN CHOOSE i \in 1..Len(tags) : tags[i] = tag /\ \A j \in 1..(i - 1) : tags[j] # tag
    ELSE 0

RECURSIVE FirstOccurrences(_, _)
\* tags.filter((tag, index) => tags.indexOf(tag) == index), from position i.
FirstOccurrences(tags, i) ==
    IF i > Len(tags) THEN <<>>
    ELSE (IF IndexOf(tags, tags[i]) = i THEN <<tags[i]>> ELSE <<>>)
            \o FirstOccurrences(tags, i + 1)

\* get allTags (lines 212-220).
AllTags(value, inline) == FirstOccurrences(FrontmatterTags(value) \o inline, 1)

MaxTags == 2

\* Texts of frontmatter tags: "a", "#a", "b"; inline tags: "#a", "#b".
FrontmatterTexts == {<<"a">>, <<"#","a">>, <<"b">>}
InlineTexts == {<<"#","a">>, <<"#","b">>}

FrontmatterPool ==
    {NoTagsValue} \cup {ScalarTags(t) : t \in FrontmatterTexts}
        \cup {ArrayTags(ts) : ts \in SeqsUpTo(FrontmatterTexts, MaxTags)}

\* The page's allTags is read (as generateOutput does, line 104).
ReadAllTags ==
    /\ ~metadata.read
    /\ metadata' = [metadata EXCEPT !.allTags = AllTags(metadata.frontmatter, metadata.inline),
                                    !.read = TRUE]
    /\ UNCHANGED <<linkVars, embedVars, exportRun, life, call, vault, siteVars>>

InitTags ==
    /\ exportOptions = [fixLinks |-> TRUE, relativeHeaderLinks |-> TRUE, slugifyPaths |-> TRUE]
    /\ headings = [p \in Pages |-> <<>>]
    /\ headerMap = [p \in Pages |-> EmptyMap]
    /\ elems = [p \in Pages |-> <<>>]
    /\ stage = [p \in Pages |-> "rendered"]
    /\ EmbedIdle
    /\ life = [p \in Pages |-> NoLife]
    /\ \E value \in FrontmatterPool : \E inline \in SeqsUpTo(InlineTexts, MaxTags) :
          metadata = [NoTags EXCEPT !.frontmatter = value, !.inline = inline]
    /\ call = NoCall
    /\ vault = NoVault
    /\ SiteIdle

NextTags == ReadAllTags

SpecTags == InitTags /\ [][NextTags]_vars

(***************************************************************************)
(* Direct calls of resolveLink                                             *)
(***************************************************************************)

\* page.resolveLink(link, linkEl, preferAttachment), called on its own (the
\* method is public), for an element without data-href.
ResolveLinkCall(p, link, preferAttachment) ==
    /\ call' = [method |-> "resolveLink", page |-> p, link |-> link,
                preferAttachment |-> preferAttachment,
                result |-> ResolveLink(headerMap[p], PageTarget(p), exportOptions, link,
                                       Undefined, preferAttachment)]
    /\ UNCHANGED <<linkVars, embedVars, exportRun, life, metadata, vault, siteVars>>

\* Heading texts: "a", "a b", "a: b", "a?", "a   b", "a#b".
ProbeHeadingTexts ==
    { <<"a">>, <<"a"," ","b">>, <<"a",":"," ","b">>, <<"a","?">>,
      <<"a"," "," "," ","b">>, <<"a","#","b">> }

\* The links of the calls: to a heading of the page by its text, within the
\* document and through the page's own file; to files of the Index without
\* a fragment, with and without a query; to a file the Index does not hold.
ProbeLinks(p) ==
    {<<"#">> \o headings[p][i].text : i \in 1..Len(headings[p])}
        \cup {PageSource(p) \o <<"#">> \o headings[p][i].text : i \in 1..Len(headings[p])}
        \cup { QMd, QMd \o <<"?","k">>, ImageSource, ImageSource \o <<"?","k">>,
               QMd \o <<"?","k","#","a">>, Missing }

InitResolve ==
    /\ exportOptions = [fixLinks |-> TRUE, relativeHeaderLinks |-> TRUE, slugifyPaths |-> TRUE]
    /\ \E h \in ProbeHeadingTexts : headings = <<<<Heading(h)>>, <<Heading(<<"a">>)>>>>
    /\ headerMap = [p \in Pages |-> EmptyMap]
    /\ elems = [p \in Pages |-> <<>>]
    /\ stage = [p \in Pages |-> "rendered"]
    /\ EmbedIdle
    /\ LifeIdle

NextResolve ==
    \E p \in Pages :
       \/ BuildFixLinks(p)
       \/ \E link \in ProbeLinks(p) : \E preferAttachment \in BOOLEAN :
             ResolveLinkCall(p, link, preferAttachment)

SpecResolve == InitResolve /\ [][NextResolve]_vars

(***************************************************************************)
(* Slide source files: resolveAdvancedSlidesFileFromSlide                   *)
(***************************************************************************)

EndsWith(s, suf) ==
    Len(s) >= Len(suf) /\ SubSeq(s, Len(s) - Len(suf) + 1, Len(s)) = suf

\* toLowerCase() on the letters the modelled paths are written with.
LowerChar(c) == IF c = "M" THEN "m" ELSE IF c = "D" THEN "d" ELSE c
ToLowerCase(s) == [i \in 1..Len(s) |-> LowerChar(s[i])]

\* The slide reference trimmed, with a surrounding [[ ]] taken off (707-710).
UnwrapSlide(t) ==
    IF StartsWith(t, <<"[", "[">>) /\ EndsWith(t, <<"]", "]">>)
    THEN Trim(SubSeq(t, 3, Len(t) - 2))
    ELSE t
SlidePath(slide) == UnwrapSlide(Trim(slide))

\* What the Advanced Slides plugin's obsidianUtils.getTFile can do: be absent,
\* throw, return nothing (Undefined) or return a file (its path).
PluginAbsent == <<"<absent>">>
PluginThrows == <<"<throws>">>
PluginFile(plugin) ==
    IF plugin \in {PluginAbsent, PluginThrows} THEN Undefined ELSE plugin

\* app.vault.getFileByPath: the file of exactly this path, or nothing.
GetFileByPath(files, path) ==
    IF \E i \in 1..Len(files) : files[i] = path THEN path ELSE Undefined

\* Lines 721-724: the path as given, then the path with ".md" appended.
FileWithMd(files, slidePath, file) ==
    IF file = Undefined /\ ~EndsWith(ToLowerCase(slidePath), MdExt)
    THEN GetFileByPath(files, slidePath \o MdExt)
    ELSE file

\* Lines 725-727: app.metadataCache.getFirstLinkpathDest, asked only when
\* the path lookups found nothing.
FileByLink(linkDest, file) == IF file = Undefined THEN linkDest ELSE file

\* Lines 729-732: the vault files whose path, with / for \, is the slide
\* path or ends in "/" + slide path (+ ".md"), in getFiles() order.
IsSuffixMatch(path, slidePath) ==
    \/ path = slidePath
    \/ EndsWith(path, <<"/">> \o slidePath)
    \/ EndsWith(path, <<"/">> \o slidePath \o MdExt)
SuffixMatches(files, slidePath) ==
    SelectSeq(files, LAMBDA f : IsSuffixMatch(ReplaceAll(f, <<"\\">>, <<"/">>), slidePath))

\* candidates.sort((a, b) => a.path.length - b.path.length)[0]: the sort is
\* stable, so among the shortest paths the first in getFiles() order.
ShortestFirst(candidates) ==
    candidates[CHOOSE i \in 1..Len(candidates) :
                   \A j \in 1..Len(candidates) :
                       /\ Len(candidates[i]) <= Len(candidates[j])
                       /\ j < i => Len(candidates[j]) > Len(candidates[i])]

\* A variant of PickCandidate that takes the first match without sorting.
PickCandidate_Unsorted(candidates) ==
    IF Len(candidates) >= 1 THEN candidates[1] ELSE Undefined

\* Lines 733-737: the one candidate, or of several the one sorted first.
PickCandidate(candidates) ==
    IF Len(candidates) = 1 THEN candidates[1]
    ELSE IF Len(candidates) > 1 THEN ShortestFirst(candidates)
    ELSE Undefined

\* Lines 728-739.
FileBySuffix(files, slidePath, file) ==
    IF file = Undefined THEN PickCandidate(SuffixMatches(files, slidePath)) ELSE file

\* Lines 721-727: the file the vault and the metadata cache find.
LocalFile(v, slidePath) ==
    FileByLink(v.linkDest, FileWithMd(v.files, slidePath, GetFileByPath(v.files, slidePath)))

ResolveSlidePath(v, slidePath) ==
    IF PluginFile(v.plugin) # Undefined THEN PluginFile(v.plugin)
    ELSE FileBySuffix(v.files, slidePath, LocalFile(v, slidePath))

ResolveAdvancedSlidesFileFromSlide(v, slide) ==
    IF slide = <<>> THEN Undefined ELSE ResolveSlidePath(v, SlidePath(slide))

\* The callers (926-930, 957-961, 988-992): without a file the embed is
\* reported as "source not found" and the loop goes on to the next embed.
EmbedSourceNotFound(slideFile) == slideFile = Undefined

\* A caller asks for the file of a slide reference.
ResolveSlideCall(p, slide) ==
    /\ call' = [method |-> "resolveAdvancedSlidesFileFromSlide", page |-> p,
                link |-> slide, preferAttachment |-> FALSE,
                result |-> ResolveAdvancedSlidesFileFromSlide(vault, slide)]
    /\ UNCHANGED <<linkVars, embedVars, exportRun, life, metadata, vault, siteVars>>

TMd == <<"t", ".", "m", "d">>
\* Vaults, as getFiles() lists them: t.md | a/s.md t.md | ab/s.md a/s.md |
\* a/s.md b/s.md | s.md a/s.md | a\s.md t.md | b/s ab/s.md.
ProbeFiles ==
    { <<TMd>>,
      << <<"a", "/", "s">> \o MdExt, TMd >>,
      << <<"a", "b", "/", "s">> \o MdExt, <<"a", "/", "s">> \o MdExt >>,
      << <<"a", "/", "s">> \o MdExt, <<"b", "/", "s">> \o MdExt >>,
      << <<"s">> \o MdExt, <<"a", "/", "s">> \o MdExt >>,
      << <<"a", "\\", "s">> \o MdExt, TMd >>,
      << <<"b", "/", "s">>, <<"a", "b", "/", "s">> \o MdExt >> }

\* Slide references: "s", "[[ s ]]", "s.md", "s.MD", "x" and the empty one.
ProbeSlides ==
    { <<"s">>, <<"[", "[", " ", "s", " ", "]", "]">>, <<"s">> \o MdExt,
      <<"s", ".", "M", "D">>, <<"x">>, <<>> }

InitSlides ==
    /\ exportOptions = [fixLinks |-> TRUE, slugifyPaths |-> TRUE, relativeHeaderLinks |-> TRUE]
    /\ headings = [p \in Pages |-> <<>>]
    /\ headerMap = [p \in Pages |-> EmptyMap]
    /\ elems = [p \in Pages |-> <<>>]
    /\ stage = [p \in Pages |-> "rendered"]
    /\ EmbedIdle
    /\ PagesIdle
    /\ SiteIdle
    /\ \E files \in ProbeFiles, linkDest \in {Undefined, TMd},
          plugin \in {PluginAbsent, PluginThrows, Undefined, TMd} :
          vault = [files |-> files, linkDest |-> linkDest, plugin |-> plugin]

NextSlides == \E p \in Pages, slide \in ProbeSlides : ResolveSlideCall(p, slide)

SpecSlides == InitSlides /\ [][NextSlides]_vars

(***************************************************************************)
(* The sidebars of a page (frontend/main/sidebars.ts)                       *)
(***************************************************************************)

\* What an event works on: the two sidebars and the body's click listeners,
\* with the setter calls made (calls) and the listeners run (heard) so far.
SiteState(sbs, listeners) ==
    [sidebars |-> sbs, bodyListeners |-> listeners, calls |-> <<>>, heard |-> <<>>]

\* get collapsed() read as a condition: undefined counts as false.
Collapsed(sb) == sb.assigned /\ sb.collapsed
\* collapsed === false
IsOpen(sb) == sb.assigned /\ ~sb.collapsed

\* A variant of AlreadyInState that never takes the early return.
AlreadyInState_Never(sb, collapse) == FALSE

\* Line 26: this._collapsed === collapse.
AlreadyInState(sb, collapse) == sb.assigned /\ sb.collapsed = collapse

Logged(st, side, collapse, depth, effect) ==
    [st EXCEPT !.calls = Append(@, [side |-> side, collapse |-> collapse,
                                    depth |-> depth, effect |-> effect])]

\* Line 30.
Assigned(st, side, collapse) ==
    [st EXCEPT !.sidebars[side].assigned = TRUE, !.sidebars[side].collapsed = collapse]

\* A variant of ClosesOther that leaves the other sidebar alone.
ClosesOther_Never(sbs, device, side, collapse) == FALSE

\* Lines 35-47: opening on phone closes the other sidebar unless it reads
\* as collapsed.
ClosesOther(sbs, device, side, collapse) ==
    ~collapse /\ device = "phone" /\ ~Collapsed(sbs[Other(side)])

\* EventTarget: removing a listener that is not registered does nothing,
\* adding one that is registered does nothing.
RemoveEventListener(list, side) == SelectSeq(list, LAMBDA s : s # side)
AddEventListener(list, side) ==
    IF \E i \in 1..Len(list) : list[i] = side THEN list ELSE Append(list, side)

\* A variant of ListenersAfter that keeps the listener of a closing sidebar.
ListenersAfter_KeptOnClose(list, device, side, collapse) ==
    IF ~collapse /\ device \in {"phone", "tablet"}
    THEN AddEventListener(RemoveEventListener(list, side), side)
    ELSE list

\* Lines 49-60: the body's click listeners after the assignment.
ListenersAfter(list, device, side, collapse) ==
    IF ~collapse
    THEN IF device \in {"phone", "tablet"}
         THEN AddEventListener(RemoveEventListener(list, side), side)
         ELSE list
    ELSE RemoveEventListener(list, side)

\* Lines 49-62.
Finished(st, device, side, collapse) ==
    [st EXCEPT !.bodyListeners = ListenersAfter(@, device, side, collapse),
               !.sidebars[side].isCollapsedClass = collapse]

\* The deepest nesting of setter calls that is followed.
MaxNesting == 4

RECURSIVE SetCollapsed(_, _, _, _, _)
\* Lines 36-47: the nested assignment to the other sidebar, if any.
AfterNested(st, device, side, collapse, depth) ==
    IF ClosesOther(st.sidebars, device, side, collapse)
    THEN SetCollapsed(st, device, Other(side), TRUE, depth + 1)
    ELSE st

\* set collapsed(collapse), lines 22-63.
SetCollapsed(st, device, side, collapse, depth) ==
    IF depth > MaxNesting THEN Logged(st, side, collapse, depth, "cut")
    ELSE IF AlreadyInState(st.sidebars[side], collapse)
    THEN Logged(st, side, collapse, depth, "none")
    ELSE Finished(AfterNested(Logged(Assigned(st, side, collapse), side, collapse,
                                     depth, "assigned"),
                              device, side, collapse, depth),
                  device, side, collapse)

\* target.closest("#" + containerEl.id), line 214.
InsideContainer(sbs, target, side) ==
    /\ target.side = side
    /\ \/ target.kind = "content"
       \/ target.kind = "toggle" /\ sbs[side].toggle = "inner"

\* A variant of OnGlobalToggle that knows no toggle.
OnGlobalToggle_Never(sbs, target, side) == FALSE

\* target.closest('.global-topbar-sidebar-toggle[data-sidebar=id]'), line 219.
OnGlobalToggle(sbs, target, side) ==
    target.kind = "toggle" /\ target.side = side /\ sbs[side].toggle = "global"

Heard(before, after, side) ==
    [after EXCEPT !.heard = Append(@, [side |-> side, before |-> before.sidebars[side],
                                       after |-> after.sidebars[side]])]

\* clickOutsideCollapse(event), lines 210-232.
ClickOutsideCollapse(st, device, side, target) ==
    IF InsideContainer(st.sidebars, target, side) THEN st
    ELSE IF OnGlobalToggle(st.sidebars, target, side) THEN st
    ELSE IF device \in {"phone", "tablet"} THEN SetCollapsed(st, device, side, TRUE, 1)
    ELSE st

\* Lines 119-122: the click listener of collapseEl.
ToggleClicked(st, device, target) ==
    IF target.kind = "toggle"
    THEN SetCollapsed(st, device, target.side, ~Collapsed(st.sidebars[target.side]), 1)
    ELSE st

RECURSIVE DispatchBody(_, _, _, _, _)
\* The click reaches document.body: the listeners registered at that moment
\* run in order of registration, one removed in the meantime is not run.
DispatchBody(st, device, target, list, i) ==
    IF i > Len(list) THEN st
    ELSE IF \E k \in 1..Len(st.bodyListeners) : st.bodyListeners[k] = list[i]
    THEN DispatchBody(Heard(st, ClickOutsideCollapse(st, device, list[i], target), list[i]),
                      device, target, list, i + 1)
    ELSE DispatchBody(st, device, target, list, i + 1)

\* The toggle's listener first (the toggle lies below the body), then the body's.
Dispatched(st, device, target) == DispatchBody(st, device, target, st.bodyListeners, 1)
ClickResult(sbs, listeners, device, target) ==
    Dispatched(ToggleClicked(SiteState(sbs, listeners), device, target), device, target)

Took(done, kind, target, width) ==
    /\ sidebars' = done.sidebars
    /\ bodyListeners' = done.bodyListeners
    /\ siteEvent' = [kind |-> kind, target |-> target, width |-> width,
                     device |-> deviceSize, calls |-> done.calls, heard |-> done.heard]
    /\ UNCHANGED <<linkVars, embedVars, exportRun, life, metadata, call, vault, deviceSize>>

\* The user clicks somewhere on the page.
Click(target) == Took(ClickResult(sidebars, bodyListeners, deviceSize, target), "click", target, 0)

\* Line 3 and line 127: fifteen times the font size of the handle's parent.
MinWidthEm == 15
FontSize == 16
MinResizeWidth == FontSize * MinWidthEm
CollapseWidth == MinResizeWidth \div 4

\* set width(width), lines 76-93, as resizeMove calls it while the handle
\* is dragged.
SetWidth(side, width) ==
    Took(SetCollapsed(SiteState(sidebars, bodyListeners), deviceSize, side,
                      width < CollapseWidth, 1),
         "width", Target("content", side), width)

\* ObsidianSite.deviceSize follows the window's width; the sidebars read it
\* at lines 32-33 and 223-224.
Resize(size) ==
    /\ size # deviceSize
    /\ deviceSize' = size
    /\ siteEvent' = [NoEvent EXCEPT !.kind = "resize", !.device = size]
    /\ UNCHANGED <<linkVars, embedVars, exportRun, life, metadata, call, vault,
                   sidebars, bodyListeners>>

DeviceSizes == {"phone", "tablet", "desktop"}
ClickTargets ==
    {Target(kind, side) : kind \in {"content", "toggle"}, side \in Sides} \cup {Elsewhere}
Widths == {0, CollapseWidth - 1, CollapseWidth, MinResizeWidth + 1}

InitSidebars ==
    /\ exportOptions = [fixLinks |-> TRUE, slugifyPaths |-> TRUE, relativeHeaderLinks |-> TRUE]
    /\ headings = [p \in Pages |-> <<>>]
    /\ headerMap = [p \in Pages |-> EmptyMap]
    /\ elems = [p \in Pages |-> <<>>]
    /\ stage = [p \in Pages |-> "rendered"]
    /\ EmbedIdle
    /\ PagesIdle
    /\ vault = NoVault
    /\ deviceSize \in DeviceSizes
    /\ sidebars \in [Sides -> {NewSidebar("inner"), NewSidebar("global")}]
    /\ bodyListeners = <<>>
    /\ siteEvent = NoEvent

NextSidebars ==
    \/ \E target \in ClickTargets : Click(target)
    \/ \E side \in Sides, width \in Widths : SetWidth(side, width)

\* The device size stays what it was when the page was loaded.
SpecSidebars == InitSidebars /\ [][NextSidebars]_vars

NextResize ==
    \/ NextSidebars
    \/ \E size \in DeviceSizes : Resize(size)

\* The window is resized between events.
SpecResize == InitSidebars /\ [][NextResize]_vars

(***************************************************************************)
(* Resizing a sidebar by its handle (sidebars.ts, lines 152-208)           *)
(***************************************************************************)

MaxDrags == 3

\* An event of the pointer: what it did to the sidebars.
Pointer(kind, side, sbs) ==
    /\ sidebars' = sbs
    /\ siteEvent' = [NoEvent EXCEPT !.kind = kind, !.target = Target("handle", side),
                                    !.device = deviceSize]
    /\ UNCHANGED <<linkVars, embedVars, exportRun, life, metadata, call, vault,
                   deviceSize, bodyListeners>>

\* handleClick, lines 167-179: _resizing = true, resizeMove listens (the same
\* function every time: added once), and one more anonymous pointerup
\* listener is put on the document.
AfterPointerDown(sb) ==
    [sb EXCEPT !.resizing = TRUE, !.moveListener = TRUE, !.upHandlers = @ + 1,
               !.held = TRUE]

\* pointerdown on the handle of a sidebar.
PointerDown(side) ==
    /\ \A other \in Sides : ~sidebars[other].held
    /\ sidebars[side].upHandlers < MaxDrags
    /\ Pointer("pointerdown", side, [sidebars EXCEPT ![side] = AfterPointerDown(@)])

\* The value of --sidebar-width after the setter of lines 76-93 ran.
WidthAfterSet(sb, width) == IF width < CollapseWidth THEN sb.width ELSE width

\* pointermove on the document while resizeMove listens (lines 159-164):
\* nothing unless resizing; otherwise the width setter with the distance.
PointerMove(side, width) ==
    /\ sidebars[side].moveListener
    /\ sidebars[side].resizing
    /\ LET done == SetCollapsed(SiteState(sidebars, bodyListeners), deviceSize, side,
                                width < CollapseWidth, 1)
       IN Took([done EXCEPT !.sidebars[side].width = WidthAfterSet(sidebars[side], width)],
               "pointermove", Target("handle", side), width)

\* The pointerup listeners of a sidebar (lines 172-179), all alike: resizeMove
\* stops listening, the computed --sidebar-width is saved.  None of them
\* assigns _resizing, none is ever removed.
AfterPointerUp(sb) ==
    IF sb.upHandlers = 0 THEN [sb EXCEPT !.held = FALSE]
    ELSE [sb EXCEPT !.moveListener = FALSE, !.saved = <<sb.width>>, !.held = FALSE]

\* pointerup anywhere on the document.
PointerUp ==
    Pointer("pointerup", "none", [side \in Sides |-> AfterPointerUp(sidebars[side])])

\* resetWidth(), lines 193-208.
AfterResetWidth(sb) == [sb EXCEPT !.width = 0, !.saved = <<>>]

ResetWidth(side) ==
    Pointer("reset", side, [sidebars EXCEPT ![side] = AfterResetWidth(@)])

\* setupSidebarResize, lines 156-157: a saved width is restored.
Restored(sb, saved) ==
    [sb EXCEPT !.saved = saved, !.width = IF saved = <<>> THEN 0 ELSE saved[1]]

SavedWidths == {<<>>, <<MinResizeWidth + 1>>}

InitDrag ==
    /\ exportOptions = [fixLinks |-> TRUE, slugifyPaths |-> TRUE, relativeHeaderLinks |-> TRUE]
    /\ headings = [p \in Pages |-> <<>>]
    /\ headerMap = [p \in Pages |-> EmptyMap]
    /\ elems = [p \in Pages |-> <<>>]
    /\ stage = [p \in Pages |-> "rendered"]
    /\ EmbedIdle
    /\ PagesIdle
    /\ vault = NoVault
    /\ deviceSize = "desktop"
    /\ \E saved \in [Sides -> SavedWidths] :
          sidebars = [side \in Sides |-> Restored(NewSidebar("global"), saved[side])]
    /\ bodyListeners = <<>>
    /\ siteEvent = NoEvent

NextDrag ==
    \/ \E side \in Sides : PointerDown(side)
    \/ \E side \in Sides, width \in Widths : PointerMove(side, width)
    \/ PointerUp
    \/ \E side \in Sides : ResetWidth(side)

SpecDrag == InitDrag /\ [][NextDrag]_vars

(***************************************************************************)
(* remapEmbedLinks on documents with several src elements                   *)
(***************************************************************************)

\* Elements with a src: a 3D model of the Index in an iframe, a model-viewer
\* and an image, a page and an image of the Index in iframes, an external
\* iframe, a model-viewer of a file the Index does not hold.
EmbedSrcPool ==
    { Element("iframe", ModelSource, Undefined, FALSE),
      Element("model-viewer", ModelSource, Undefined, FALSE),
      Element("img", ModelSource, Undefined, FALSE),
      Element("iframe", QMd, Undefined, FALSE),
      Element("iframe", ImageSource \o <<"?", "k">>, Undefined, FALSE),
      Element("iframe", Https \o <<"e">>, Undefined, FALSE),
      Element("model-viewer", Missing, Undefined, FALSE) }

MaxSrcElements == 2

InitSrcLinks ==
    /\ exportOptions = [fixLinks |-> TRUE, relativeHeaderLinks |-> TRUE, slugifyPaths |-> TRUE]
    /\ headings = [p \in Pages |-> <<Heading(<<"a">>)>>]
    /\ headerMap = [p \in Pages |-> EmptyMap]
    /\ \E d \in SeqsUpTo(EmbedSrcPool, MaxSrcElements) : elems = <<d, <<>>>>
    /\ stage = [p \in Pages |-> "rendered"]
    /\ EmbedIdle
    /\ LifeIdle

NextSrcLinks == \E p \in Pages : BuildFixLinks(p)

SpecSrcLinks == InitSrcLinks /\ [][NextSrcLinks]_vars

(***************************************************************************)
(* inlineMedia (lines 1239-1260)                                           *)
(***************************************************************************)

\* A media file of the vault that holds no bytes: its base64 text is "".
EmptyFile == <<"o",".","p","n","g">>
AudioFile == <<"s",".","m","p","3">>

\* Path.readAsString("base64"): the text of a file that can be read, nothing
\* for a file that does not exist.
ReadAsBase64(path) ==
    IF path = EmptyFile THEN <<>>
    ELSE IF path \in VaultFiles \cup {AudioFile} THEN <<"Q", "=">> \o <<path[1]>>
    ELSE Undefined

\* Path.extensionName: what follows the last dot.
ExtensionName(path) ==
    LET dots == {i \in 1..Len(path) : path[i] = "."}
    IN IF dots = {} THEN <<>>
       ELSE Substring(path, CHOOSE i \in dots : \A j \in dots : j <= i)

\* app.viewRegistry.typeByExtension[ext] ?? "audio" (line 1253).
TypeByExtension(ext) ==
    IF ext = <<"p","n","g">> THEN <<"i","m","a","g","e">> ELSE <<"a","u","d","i","o">>

\* Line 1257: `data:${type}/${ext};base64,${base64}`.
DataUri(path, base64) ==
    <<"d","a","t","a",":">> \o TypeByExtension(ExtensionName(path)) \o <<"/">>
        \o ExtensionName(path) \o <<";","b","a","s","e","6","4",",">> \o base64

\* Line 1246: the src names a file inside the vault (the path is not empty,
\* no directory, not absolute); external URLs and data URIs name none.
IsLocalMedia(el) ==
    /\ HasSrc(el)
    /\ ~SkippedSrc(el.value)
    /\ GetFilePathFromSrc(el.value) # <<>>
    /\ ExtensionName(GetFilePathFromSrc(el.value)) # <<>>

\* Lines 1248-1257 once the read has settled: `if (!base64) return;` ends the
\* whole call; otherwise the src becomes the data URI and the loop goes on.
AfterRead(page, el, base64) ==
    IF ~Truthy(base64) THEN [inlined |-> "returned", mediaAt |-> page.mediaAt, el |-> el]
    ELSE [inlined |-> "running", mediaAt |-> page.mediaAt + 1,
          el |-> [el EXCEPT !.value = DataUri(GetFilePathFromSrc(el.value), base64)]]

\* build() calls inlineMedia (lines 508-509, option inlineMedia set): the
\* elements with a src are collected.
InlineMediaCall(p) ==
    /\ life[p].inlined = "none"
    /\ life' = [life EXCEPT ![p].inlined = "running", ![p].mediaAt = 1]
    /\ UNCHANGED <<linkVars, embedVars, exportRun, metadata, call, vault, siteVars>>

\* One iteration of the loop: an element that names no local file is passed
\* over; for the others the file is read (an await: other pages' calls run in
\* between) and lines 1248-1257 follow.
InlineMediaStep(p) ==
    /\ life[p].inlined = "running"
    /\ IF life[p].mediaAt > Len(elems[p])
       THEN /\ life' = [life EXCEPT ![p].inlined = "returned"]
            /\ UNCHANGED elems
       ELSE IF ~IsLocalMedia(elems[p][life[p].mediaAt])
       THEN /\ life' = [life EXCEPT ![p].mediaAt = @ + 1]
            /\ UNCHANGED elems
       ELSE LET after == AfterRead(life[p], elems[p][life[p].mediaAt],
                                   ReadAsBase64(GetFilePathFromSrc(
                                       elems[p][life[p].mediaAt].value)))
            IN /\ life' = [life EXCEPT ![p].inlined = after.inlined,
                                       ![p].mediaAt = after.mediaAt]
               /\ elems' = [elems EXCEPT ![p][life[p].mediaAt] = after.el]
    /\ UNCHANGED <<exportOptions, headings, headerMap, stage, embedVars, exportRun,
                   metadata, call, vault, siteVars>>

\* The src elements of the documents: readable images and an audio file, a
\* file without bytes, a file that does not exist, an external URL.
MediaPool ==
    { Img(LooseImage), Img(<<"/">> \o SlideImage), Img(AudioFile), Img(EmptyFile),
      Img(<<"z",".","p","n","g">>), Img(Https \o <<"e">>) }

MaxMedia == 3

InitInline ==
    /\ exportOptions = [fixLinks |-> TRUE, relativeHeaderLinks |-> TRUE, slugifyPaths |-> TRUE]
    /\ headings = [p \in Pages |-> <<>>]
    /\ headerMap = [p \in Pages |-> EmptyMap]
    /\ \E d \in SeqsUpTo(MediaPool, MaxMedia) :
          \E e \in {<<>>, <<Img(EmptyFile), Img(LooseImage)>>} : elems = <<d, e>>
    /\ stage = [p \in Pages |-> "rendered"]
    /\ EmbedIdle
    /\ LifeIdle

NextInline == \E p \in Pages : InlineMediaCall(p) \/ InlineMediaStep(p)

SpecInline == InitInline /\ [][NextInline]_vars

(***************************************************************************)
(* Properties of the link specification                                    *)
(***************************************************************************)

Remapped(p) == stage[p] = "linksDone" /\ exportOptions.fixLinks

Range(f) == {f[i] : i \in DOMAIN f}

\* Number of headings before position i with the normalised text of heading i.
EarlierSame(hs, i) ==
    Cardinality({j \in 1..(i - 1) :
                    NormalizeHeader(hs[j].text) = NormalizeHeader(hs[i].text)})

\* Number of headings of hs with normalised text t.
Occurrences(hs, t) ==
    Cardinality({j \in 1..Len(hs) : NormalizeHeader(hs[j].text) = t})

\* C2: after the heading pass on a fresh headerMap, the k-th heading (from 0)
\* with a given normalised text has id '<normalised>_k', and no two headings
\* of the page have the same id.
C2_HeadingIds ==
    \A p \in Pages :
        Remapped(p) =>
            LET hs == headings[p]
            IN /\ \A i \in 1..Len(hs) :
                      hs[i].id = NormalizeHeader(hs[i].text) \o <<"_">>
                                     \o ToDecimal(EarlierSame(hs, i))
               /\ \A i, j \in 1..Len(hs) : i # j => hs[i].id # hs[j].id

\* A page where one normalised text occurs three times, written differently.
C2_Witness ==
    \E p \in Pages :
        /\ Remapped(p)
        /\ \E i, j \in 1..Len(headings[p]) :
              /\ EarlierSame(headings[p], i) = 2
              /\ headings[p][i].text # headings[p][j].text
              /\ headings[p][i].id = <<"a","_","2">>

\* C3: a same-document fragment '#H' whose normalised text is in the heading
\* map is rewritten to '#<norm(H)>_0' however many headings share the text,
\* and is left unchanged when the text is not in the map.
C3_FragmentToFirstHeading ==
    \A p \in Pages :
        (Remapped(p) /\ exportOptions.relativeHeaderLinks) =>
            \A i \in 1..Len(elems[p]) :
                LET el == elems[p][i]
                    key == NormalizeHeader(Substring(el.orig, 1))
                IN (HasHref(el) /\ StartsWith(el.orig, <<"#">>) /\ el.dataHref = Undefined) =>
                       IF Occurrences(headings[p], key) > 0
                       THEN el.value = <<"#">> \o key \o <<"_","0">>
                       ELSE el.value = el.orig

\* The references 'path?query#frag' of the inputs, by their parts.
QueryFragRefs ==
    {[path |-> PageSource(t), page |-> t, query |-> <<"k">>, frag |-> f] :
        t \in Pages, f \in HeadingTexts}

\* C4: 'path?query#frag' resolving to an HTML page that has heading frag
\* becomes '<target path>?query#<frag>_<suffix>' and nothing more.
C4_QueryThenFragment ==
    \A p \in Pages :
        Remapped(p) =>
            \A i \in 1..Len(elems[p]) : \A r \in QueryFragRefs :
                LET el == elems[p][i]
                    key == NormalizeHeader(r.frag)
                IN (/\ HasHref(el)
                    /\ el.orig = r.path \o <<"?">> \o r.query \o <<"#">> \o r.frag
                    /\ Remapped(r.page)
                    /\ Occurrences(headings[r.page], key) > 0) =>
                       \E n \in 0..(Occurrences(headings[r.page], key) - 1) :
                           el.value = PageTarget(r.page) \o <<"?">> \o r.query
                                          \o <<"#">> \o key \o <<"_">> \o ToDecimal(n)

\* The references 'path#frag' to the other page, by their parts.
FragRefs ==
    {[path |-> PageSource(t), page |-> t, frag |-> f] : t \in Pages, f \in HeadingTexts}

\* C5: when the remap pass of page p rewrites 'path#frag' that resolves to
\* another HTML page t whose headings are already allocated, the anchor comes
\* from t's heading map: the suffix t allocated for norm(frag), whatever
\* headings p has.
C5_FragmentThroughTargetMap ==
    [][\A p \in Pages :
          (stage[p] = "rendered" /\ stage'[p] = "linksDone" /\ exportOptions.fixLinks) =>
              \A i \in 1..Len(elems'[p]) : \A r \in FragRefs :
                  LET el == elems'[p][i]
                      key == NormalizeHeader(r.frag)
                  IN (/\ HasHref(el)
                      /\ r.page # p
                      /\ stage[r.page] = "linksDone"
                      /\ el.orig = r.path \o <<"#">> \o r.frag) =>
                         el.value = PageTarget(r.page) \o <<"#">> \o
                                        (IF MapHas(headerMap[r.page], key)
                                         THEN key \o <<"_">> \o headerMap[r.page][key]
                                         ELSE r.frag)]_vars

\* A reference the Index does not know: a path (not a fragment, not left as
\* is by its scheme) whose file is no page and no attachment.
RefPath(ref) == GetFilePathFromSrc(UntilAnyOf(ref, {"?", "#"}))

SchemeAt(s, n) ==
    /\ n >= 1
    /\ Len(s) >= n + 3
    /\ \A i \in 1..n : s[i] \in WordChars
    /\ s[n + 1] = ":"
    /\ SubSeq(s, n + 2, n + 3) \in {<<"/","/">>, <<"\\","\\">>}

\* The references the resolver must leave as they are: scheme:// or scheme:\\
\* other than app://, data:, mailto:, and references starting with '?'.
PassedThrough(ref) ==
    \/ (\E n \in 1..Len(ref) : SchemeAt(ref, n)) /\ ~StartsWith(ref, <<"a","p","p",":">>)
    \/ StartsWith(ref, <<"d","a","t","a",":">>)
    \/ StartsWith(ref, <<"m","a","i","l","t","o",":">>)
    \/ StartsWith(ref, <<"?">>)

UnknownFileRef(ref) ==
    /\ ref # <<>>
    /\ ~PassedThrough(ref)
    /\ ~StartsWith(ref, <<"#">>)
    /\ ~IndexGetFile(RefPath(ref), FALSE).found

\* C6: a reference to a file absent from the Index is rewritten to the
\* slugified path with an .html extension, and its element carries the
\* is-unresolved class after the remap pass.
C6_UnknownFileMarked ==
    \A p \in Pages :
        Remapped(p) =>
            \A i \in 1..Len(elems[p]) :
                LET el == elems[p][i]
                    html == SetExtension(Slugify(RefPath(el.orig), exportOptions.slugifyPaths),
                                         HtmlExt)
                IN UnknownFileRef(el.orig) =>
                       /\ StartsWith(el.value, html)
                       /\ el.unresolved

\* C7: an external, data:, mailto: or '?' reference makes resolveLink return
\* the leave-as-is signal, and the element's href / src is its original value
\* after remapLinks and remapEmbedLinks.
C7_PassThroughUntouched ==
    \A p \in Pages :
        Remapped(p) =>
            \A i \in 1..Len(elems[p]) :
                LET el == elems[p][i]
                IN PassedThrough(el.orig) =>
                       /\ ResolveLink(headerMap[p], PageTarget(p), exportOptions, el.orig,
                                      el.dataHref, HasSrc(el)) = Undefined
                       /\ el.value = el.orig

\* A remapped iframe (visited by two loops of remapEmbedLinks) whose src is
\* an external URL.
C7_Witness ==
    \E p \in Pages :
        /\ Remapped(p)
        /\ \E i \in 1..Len(elems[p]) :
              /\ elems[p][i].tag = "iframe"
              /\ \E n \in 1..Len(elems[p][i].orig) : SchemeAt(elems[p][i].orig, n)
              /\ elems[p][i].targetSelf

(***************************************************************************)
(* Properties of the embed specification                                   *)
(***************************************************************************)

\* The renders of a key that have not settled yet.
InFlight(key) ==
    Cardinality({p \in Pages : pc[p] = "render" /\ Task(p).key = key})

\* A render of the key settled without HTML.
RenderFailed(key) == Count(renderCalls, key) > Count(renderOk, key) + InFlight(key)

\* The embed Attachments of a key in a page's attachments list.
EmbedObjectsOf(p, key) ==
    {attachments[p][i] : i \in {j \in 1..Len(attachments[p]) :
                                   /\ objects[attachments[p][j]].kind = "embed"
                                   /\ objects[attachments[p][j]].key = key}}

\* C1: as long as no render of a (slide file, page) key has failed, the
\* renderer is invoked at most once for the key, whatever the interleaving of
\* the pages' getAttachments() calls, and all the pages that embed the key
\* hold one and the same embed Attachment.
C1_EmbedSingleFlight ==
    \A key \in Keys :
        ~RenderFailed(key) =>
            /\ Count(renderCalls, key) <= 1
            /\ Cardinality(EmbedObjectsOf(1, key) \cup EmbedObjectsOf(2, key)) <= 1

NoDuplicates(list) == \A i, j \in 1..Len(list) : list[i] = list[j] => i = j

\* The Attachments the src loop of a page resolved a source path to.
TookFor(p, path) == {t[2] : t \in {u \in cur[p].took : u[1] = path}}

\* The source paths of the page's src values that name a file.
SrcPaths(p) ==
    {GetFilePathFromSrc(SrcLinks(p)[i]) : i \in {j \in 1..Len(SrcLinks(p)) :
        /\ ~SkippedSrc(SrcLinks(p)[j])
        /\ \/ IndexObject(GetFilePathFromSrc(SrcLinks(p)[j])) # 0
           \/ CanCreate(SrcLinks(p)[j])}}

C9_EmbedFailureContained == \A p \in Pages : pc[p] # "failed"

\* The embed the page is about to process is a reference to its key: it is
\* not an iframe passed over.
AtReference(p) ==
    /\ pc[p] = "loop"
    /\ cur[p].i <= Len(cur[p].work)
    /\ ~(Task(p).loop = "iframe" /\ (embeds[p][Task(p).at].exported
                                     \/ ~embeds[p][Task(p).at].live))

\* C10: the embed cache holds a key only if a render of the key returned
\* HTML; a render that settles without HTML leaves the cache as it was; and
\* a reference to a key the cache does not hold invokes the renderer.
C10_FailuresNotCached ==
    [][/\ \A key \in DOMAIN embedCache' : Count(renderOk', key) >= 1
       /\ \A p \in Pages :
             /\ (pc[p] = "render" /\ pc'[p] \in {"loop", "failed"})
                   => embedCache' = embedCache
             /\ (/\ AtReference(p)
                 /\ ~MapHas(embedCache, Task(p).key)
                 /\ (cur'[p] # cur[p] \/ pc'[p] # pc[p]))
                   => /\ pc'[p] = "render"
                      /\ Count(renderCalls', Task(p).key) = Count(renderCalls, Task(p).key) + 1
      ]_vars

\* On a page exported alone a render of a key failed, the cache does not hold
\* the key, and the renderer has been invoked for the key again.
C10_Witness ==
    \E key \in Keys :
        /\ calls[2] = 0
        /\ pc[1] = "render"
        /\ Task(1).key = key
        /\ Count(renderCalls, key) = 2
        /\ Count(renderOk, key) = 0
        /\ ~MapHas(embedCache, key)

(***************************************************************************)
(* Properties of the export runs                                           *)
(***************************************************************************)

\* The Attachments of rendered embeds a page holds, and those the cache holds.
EmbedObjectsHeld(p) ==
    {attachments[p][i] : i \in {j \in 1..Len(attachments[p]) :
                                    objects[attachments[p][j]].kind = "embed"}}

\* C11: the embed cache is empty when an export run starts (no page of the
\* run has called getAttachments yet), and an Attachment a page got from a
\* cache lookup was made in the run the page belongs to, never in an
\* earlier one.
C11_EmbedCachePerRun ==
    /\ (\A p \in Pages : calls[p] = 0) => embedCache = EmptyMap
    /\ \A p \in Pages : \A o \in EmbedObjectsHeld(p) : objects[o].run = exportRun

(***************************************************************************)
(* Properties of the shared asset walk                                     *)
(***************************************************************************)

\* The asset Attachments a page holds.
AssetsHeld(p) ==
    {attachments[p][i] : i \in {j \in 1..Len(attachments[p]) :
                                    objects[attachments[p][j]].kind = "asset"}}

\* The page's call asked for the assets and has resumed with them.
JoinedAssets(p) == cur[p].work # <<>> /\ pc[p] \notin {"idle", "assets"}

\* C12: the asset folders are walked at most once: a caller waiting for the
\* assets finds the shared promise installed, no walk starts while one is
\* installed, the promise resolves to one array, and every caller that
\* resumed holds the Attachments of that one array.
C12_AssetsWalkedOnce ==
    /\ assetWalks <= 1
    /\ (assetsPromise = "unset") <=> (assetWalks = 0)
    /\ \A p \in Pages : pc[p] = "assets" => assetsPromise # "unset"
    /\ Cardinality(AssetObjects) <= 1
    /\ \A p \in Pages :
          /\ AssetsHeld(p) \subseteq AssetObjects
          /\ JoinedAssets(p) => AssetsHeld(p) = AssetObjects /\ AssetObjects # {}

\* Two pages asked for the assets while the walk was pending and both
\* resumed with them.
C12_Witness ==
    /\ assetWalks = 1
    /\ \A p \in Pages : calls[p] = 1 /\ JoinedAssets(p) /\ AssetsHeld(p) # {}

(***************************************************************************)
(* Properties of the page lifecycle                                        *)
(***************************************************************************)

HasSlides(p) == sourceBlocks[p] # <<>>

\* Every placeholder of a serialised document is a spliced slide iframe.
AllSpliced(html) == \A i \in 1..Len(html.embeds) : html.embeds[i].slidesEmbed

\* C13: on a page with slide embeds, the embed resolution of getAttachments()
\* starts only after build() has remapped the links, and generateOutput()
\* captures the HTML only after that resolution has finished, so that the
\* captured HTML holds the spliced iframes.
C13_EmbedsBetweenLinksAndOutput ==
    [][\A p \in Pages :
          HasSlides(p) =>
             /\ calls'[p] > calls[p] => stage[p] = "linksDone"
             /\ life'[p].html # life[p].html =>
                   /\ calls[p] >= 1 /\ pc[p] = "done"
                   /\ AllSpliced(life'[p].html)]_vars

\* The step is the construction of page p.
Constructs(p) == stage[p] = "fresh" /\ stage'[p] # "fresh"

\* C14: constructing a Webpage leaves Settings.exportOptions as it was.
C14_SettingsUnchanged ==
    [][\A p \in Pages : Constructs(p) => exportOptions' = exportOptions]_vars

\* The step is a renderDocument() of page p.
Renders(p) ==
    /\ stage[p] \in {"created", "aborted"}
    /\ stage'[p] \in {"rendered", "aborted"}
    /\ life'[p] # life[p]

\* C17: renderDocument() returns no result when the template has no content
\* container, when the renderer gives no content element, or when the
\* cancellation flag is up after the render, and then the document type is
\* the one before the call; in every other case it returns the page.
C17_RenderDocumentResult ==
    [][\A p \in Pages :
          Renders(p) =>
             IF \/ ~life'[p].saw.container
                \/ ~life'[p].saw.contentEl
                \/ life'[p].saw.cancelled
             THEN life'[p].rendered = "undefined" /\ life'[p].type = life[p].type
             ELSE life'[p].rendered = "page"]_vars

\* One page met the cancellation flag after a render that gave a content
\* element; the other was rendered as a canvas and returned.
C17_Witness ==
    /\ life[1].rendered = "undefined" /\ life[1].saw.contentEl /\ life[1].saw.cancelled
    /\ life[2].rendered = "page" /\ life[2].type = "canvas"

\* C18: build() returns the page, with output generated, only for a page
\* whose renderDocument() returned it.
C18_NoOutputWithoutRender ==
    \A p \in Pages : life[p].built = "page" => life[p].rendered = "page"

\* C19: a construction that throws for a file that cannot be converted
\* leaves everything as it was: no target path, the settings, the other
\* pages, the statics.
C19_RejectedBeforeAnyEffect ==
    [][\A p \in Pages :
          (Constructs(p) /\ stage'[p] = "rejected") =>
             /\ life'[p].targetPath = Undefined
             /\ \A q \in Pages \ {p} : stage'[q] = stage[q]
             /\ UNCHANGED <<exportOptions, headings, headerMap, elems, embedVars,
                            exportRun, lifeVars>>]_vars

\* The construction of page 1 threw; page 2 was constructed and rendered.
C19_Witness ==
    /\ stage[1] = "rejected" /\ life[1].targetPath = Undefined
    /\ stage[2] = "rendered" /\ life[2].targetPath = PageTarget(2)

(***************************************************************************)
(* Properties of resolveLink as a query                                    *)
(***************************************************************************)

InRepeatedCall(p) ==
    /\ calls[p] >= 2
    /\ cur[p].after = "done"
    /\ pc[p] \notin {"idle", "done", "failed"}
    /\ \A k \in DOMAIN renderCalls : ~RenderFailed(k)

\* The placeholder has been dealt with by a call.
Processed(ph) == ph.slidesEmbed \/ ph.exported

\* C16: a step of a getAttachments() that repeats a call which returned
\* leaves the page's attachments list as they were, leaves every placeholder
\* that was processed as it was, and does not call the renderer for a slide
\* that has been rendered successfully.
C16_SecondCallIdempotent ==
    [][\A p \in Pages :
          InRepeatedCall(p) =>
             /\ attachments'[p] = attachments[p]
             /\ \A i \in 1..Len(embeds[p]) :
                   Processed(embeds[p][i]) => embeds'[p][i] = embeds[p][i]
             /\ (pc[p] = "loop" /\ pc'[p] = "render") =>
                   Count(renderOk, Task(p).key) = 0]_vars

(***************************************************************************)
(* Properties of the tags                                                  *)
(***************************************************************************)

\* The tag with a '#' in front unless it has one.
WithHash(t) == IF Len(t) > 0 /\ t[1] = "#" THEN t ELSE <<"#">> \o t

\* The frontmatter tags with their '#', followed by the inline tags.
TagsInOrder ==
    [i \in 1..Len(metadata.frontmatter.items) |-> WithHash(metadata.frontmatter.items[i])]
        \o metadata.inline

\* C20: allTags has no tag twice, holds exactly the frontmatter tags with
\* their '#' and the inline tags, in the order in which they are first seen
\* in the frontmatter tags followed by the inline tags; the frontmatter tag
\* 'a' with the inline tag '#a' gives the single tag '#a'.
C20_AllTagsUniqueInOrder ==
    metadata.read =>
       /\ NoDuplicates(metadata.allTags)
       /\ Range(metadata.allTags) = Range(TagsInOrder)
       /\ \A i, j \in 1..Len(metadata.allTags) :
             i < j => \E m \in 1..Len(TagsInOrder) :
                         /\ TagsInOrder[m] = metadata.allTags[i]
                         /\ \A n \in 1..m : TagsInOrder[n] # metadata.allTags[j]
       /\ (metadata.frontmatter.items = << <<"a">> >> /\ metadata.inline = << <<"#","a">> >>)
             => metadata.allTags = << <<"#","a">> >>

\* allTags was read for the frontmatter tags 'a', 'b' and the inline tags
\* '#b', '#a'.
C20_Witness ==
    /\ metadata.read
    /\ metadata.frontmatter = ArrayTags(<< <<"a">>, <<"b">> >>)
    /\ metadata.inline = << <<"#","b">>, <<"#","a">> >>
    /\ metadata.allTags = << <<"#","a">>, <<"#","b">> >>

(***************************************************************************)
(* Properties of the order of the passes of build()                        *)
(***************************************************************************)

\* The step is the link block of build() on page p (lines 515-519).
BuildsLinks(p) == stage[p] \in {"created", "aborted", "rendered"} /\ stage'[p] = "linksDone"

\* The link of the element names a heading of the page by its text.
NamesHeading(p, el) ==
    /\ HasHref(el)
    /\ StartsWith(el.value, <<"#">>)
    /\ el.dataHref = Undefined
    /\ \E i \in 1..Len(headings[p]) :
          NormalizeHeader(headings[p][i].text) = NormalizeHeader(Substring(el.value, 1))

\* C21: with fixLinks the link block of build() leaves every heading with
\* its id and its map entry, and every link that names a heading is resolved
\* with the map of all headings; without fixLinks the map stays empty and
\* ids and links are as they were; generateOutput() captures the document
\* after the block, as the block left it.
C21_HeadingsThenLinksThenOutput ==
    [][\A p \in Pages :
          /\ BuildsLinks(p) =>
                IF exportOptions.fixLinks
                THEN /\ \A i \in 1..Len(headings[p]) :
                           /\ MapHas(headerMap'[p], NormalizeHeader(headings[p][i].text))
                           /\ headings'[p][i].id # <<>>
                     /\ \A i \in 1..Len(elems[p]) :
                           NamesHeading(p, elems[p][i]) =>
                              elems'[p][i].value =
                                 HeaderAnchor(headerMap'[p],
                                              NormalizeHeader(Substring(elems[p][i].value, 1)))
                ELSE /\ headerMap'[p] = EmptyMap
                     /\ headings'[p] = headings[p]
                     /\ elems'[p] = elems[p]
          /\ (life[p].built # "page" /\ life'[p].built = "page") =>
                /\ stage[p] = "linksDone"
                /\ life'[p].html.elems = elems[p]]_vars

\* The output of a page was generated with its link to the heading resolved;
\* the other page was built without fixLinks.
C21_Witness ==
    \E p, q \in Pages :
        /\ life[p].built = "page"
        /\ Len(life[p].html.elems) > 0
        /\ life[p].html.elems[1].value = <<"#","a","_","0">>
        /\ stage[q] = "linksDone"
        /\ Len(elems[q]) > 0
        /\ headerMap[q] = EmptyMap
        /\ elems[q][1].value = <<"#","a">>

(***************************************************************************)
(* Properties of the keys and of direct calls of resolveLink               *)
(***************************************************************************)

\* The step is a call of resolveLink on page p.
Resolves(p) == call' # call /\ call'.method = "resolveLink" /\ call'.page = p

\* C22: once the heading pass has run on a page, a link that names a heading
\* of the page by its exact text, as '#h' or as 'file#h' with the page's own
\* file, is resolved to the anchor of that heading's map entry: both branches
\* of resolveLink come to the key the heading pass stored.
C22_LinkKeyIsHeadingKey ==
    [][\A p \in Pages :
          (Resolves(p) /\ stage[p] = "linksDone") =>
             \A i \in 1..Len(headings[p]) :
                /\ call'.link = <<"#">> \o headings[p][i].text =>
                      call'.result =
                         HeaderAnchor(headerMap[p], NormalizeHeader(headings[p][i].text))
                /\ call'.link = PageSource(p) \o <<"#">> \o headings[p][i].text =>
                      call'.result =
                         PageTarget(p) \o
                            HeaderAnchor(headerMap[p], NormalizeHeader(headings[p][i].text))]_vars

\* The text holds the pattern somewhere.
Contains(text, pat) ==
    \E i \in 1..Len(text) : i + Len(pat) - 1 <= Len(text) /\ SubSeq(text, i, i + Len(pat) - 1) = pat

\* C23: the normalised text under which the heading pass enters a heading in
\* the map holds no space, no colon and no two underscores in a row.
C23_NormalizedTextClean ==
    \A p \in Pages :
        \A key \in DOMAIN headerMap[p] :
            /\ ~Contains(key, <<" ">>)
            /\ ~Contains(key, <<":">>)
            /\ ~Contains(key, <<"_","_">>)

(***************************************************************************)
(* Properties of the is-unresolved class                                   *)
(***************************************************************************)

\* The reference names a file the Index holds.
KnownFileRef(el) ==
    /\ el.orig # <<>>
    /\ ~PassedThrough(el.orig)
    /\ ~StartsWith(el.orig, <<"#">>)
    /\ IndexGetFile(RefPath(el.orig), HasSrc(el)).found

\* C24: after the remap passes an element whose reference was passed
\* through, or was resolved to a file of the Index, does not carry the
\* is-unresolved class.
C24_ResolvedNotMarked ==
    \A p \in Pages :
        Remapped(p) =>
            \A i \in 1..Len(elems[p]) :
                (PassedThrough(elems[p][i].orig) \/ KnownFileRef(elems[p][i])) =>
                    ~elems[p][i].unresolved

(***************************************************************************)
(* Properties of the slide file lookup                                      *)
(***************************************************************************)

\* The last call asked for a slide's file and got as far as the suffix match:
\* the plugin, the path lookups and the link lookup all found nothing.
AtSuffixMatch ==
    /\ call.method = "resolveAdvancedSlidesFileFromSlide"
    /\ call.link # <<>>
    /\ PluginFile(vault.plugin) = Undefined
    /\ LocalFile(vault, SlidePath(call.link)) = Undefined

Candidates == SuffixMatches(vault.files, SlidePath(call.link))

\* C25: the suffix match yields a file only when exactly one vault file
\* matches; with no match or with more than one the lookup returns no file
\* and the embed is reported as "source not found" and skipped.
C25_SuffixMatchOnlyWhenUnique ==
    AtSuffixMatch =>
        IF Len(Candidates) = 1
        THEN call.result = Candidates[1] /\ ~EmbedSourceNotFound(call.result)
        ELSE call.result = Undefined /\ EmbedSourceNotFound(call.result)

\* C25 (amended): one match is returned; of several matches the one with
\* the shortest path is returned, the earliest in the vault's order among
\* equally short ones; only with no match is there no file and the embed
\* reported and skipped.
C25_SuffixMatchShortest ==
    AtSuffixMatch =>
        IF Len(Candidates) = 0
        THEN call.result = Undefined /\ EmbedSourceNotFound(call.result)
        ELSE /\ ~EmbedSourceNotFound(call.result)
             /\ \E i \in 1..Len(Candidates) :
                   /\ call.result = Candidates[i]
                   /\ \A j \in 1..Len(Candidates) :
                         /\ Len(Candidates[i]) <= Len(Candidates[j])
                         /\ j < i => Len(Candidates[j]) > Len(Candidates[i])
             /\ Len(Candidates) = 1 => call.result = Candidates[1]

\* Two files matched by suffix, the shorter path listed second, and it was
\* the one returned.
C25_Witness ==
    /\ AtSuffixMatch
    /\ Len(Candidates) = 2
    /\ Len(Candidates[2]) < Len(Candidates[1])
    /\ call.result = Candidates[2]

(***************************************************************************)
(* Properties of the sidebars                                               *)
(***************************************************************************)

\* C26: on a phone the left and the right sidebar are never both open,
\* whatever toggles were clicked, widths set and clicks made elsewhere.
C26_NeverBothOpenOnPhone ==
    deviceSize = "phone" => ~(IsOpen(sidebars["left"]) /\ IsOpen(sidebars["right"]))

\* On a phone the left sidebar was opened while the right one was open, and
\* the right one is closed now.
C26_Witness ==
    /\ deviceSize = "phone"
    /\ Len(siteEvent.calls) = 2
    /\ siteEvent.calls[1] = [side |-> "left", collapse |-> FALSE, depth |-> 1,
                             effect |-> "assigned"]
    /\ siteEvent.calls[2].effect = "assigned"
    /\ IsOpen(sidebars["left"])
    /\ sidebars["right"].assigned /\ sidebars["right"].collapsed

\* The setter calls of the event a step makes.
CallsMade == siteEvent'.calls

\* Call i is a close of the other sidebar made from within call i - 1, which
\* opened its sidebar on a phone.
NestedClose(log, i, device) ==
    /\ i > 1
    /\ device = "phone"
    /\ log[i].collapse
    /\ log[i - 1].depth = 1
    /\ log[i - 1].effect = "assigned"
    /\ ~log[i - 1].collapse
    /\ log[i].side = Other(log[i - 1].side)

\* C27: an assignment of collapsed terminates. Assigning the value the
\* sidebar has changes nothing; an opening on a phone makes at most one
\* nested assignment, a close of the other sidebar, and that one makes none.
C27_SetterTerminates ==
    [][/\ \A i \in 1..Len(CallsMade) :
             /\ CallsMade[i].effect # "cut"
             /\ CallsMade[i].depth <= 2
             /\ CallsMade[i].depth = 2 => NestedClose(CallsMade, i, siteEvent'.device)
       /\ (/\ siteEvent'.kind = "width"
           /\ sidebars[siteEvent'.target.side].assigned
           /\ sidebars[siteEvent'.target.side].collapsed
                  = (siteEvent'.width < CollapseWidth))
            => /\ UNCHANGED <<sidebars, bodyListeners>>
               /\ Len(siteEvent'.calls) = 1
               /\ siteEvent'.calls[1].effect = "none"]_vars

\* Setting the right sidebar's width opened it on a phone, and the left
\* sidebar was closed from within that assignment.
C27_Witness ==
    /\ siteEvent.kind = "width"
    /\ siteEvent.device = "phone"
    /\ Len(siteEvent.calls) = 2
    /\ siteEvent.calls[1].side = "right" /\ ~siteEvent.calls[1].collapse
    /\ siteEvent.calls[2] = [side |-> "left", collapse |-> TRUE, depth |-> 2,
                             effect |-> "assigned"]

Registrations(side) ==
    Cardinality({i \in 1..Len(bodyListeners) : bodyListeners[i] = side})

\* A sidebar's listener is on the body at most once, and only while the
\* sidebar is open.
ListenerOnlyWhileOpen ==
    \A side \in Sides :
        /\ Registrations(side) <= 1
        /\ Registrations(side) = 1 => IsOpen(sidebars[side])

\* C28: the click-outside listener of a sidebar is registered at most once
\* and never while the sidebar is collapsed; a sidebar that becomes
\* collapsed has none registered, one that is opened on a phone or tablet
\* has exactly one.
C28_ListenerFollowsSidebar ==
    [][/\ ListenerOnlyWhileOpen
       /\ ListenerOnlyWhileOpen'
       /\ \A side \in Sides :
             /\ (~Collapsed(sidebars[side]) /\ Collapsed(sidebars'[side]))
                    => Registrations(side)' = 0
             /\ (~IsOpen(sidebars[side]) /\ IsOpen(sidebars'[side])
                   /\ deviceSize \in {"phone", "tablet"})
                    => Registrations(side)' = 1]_vars

\* On a tablet both sidebars are open, each with its listener on the body.
C28_Witness ==
    /\ deviceSize = "tablet"
    /\ bodyListeners = <<"right", "left">>
    /\ IsOpen(sidebars["left"]) /\ IsOpen(sidebars["right"])

\* The click was on the sidebar itself: its container or its toggle.
OwnTarget(target, side) == target.side = side /\ target.kind \in {"content", "toggle"}

\* C29: run for a click, clickOutsideCollapse leaves its sidebar as it is
\* when the target lies inside the sidebar's container or on its topbar
\* toggle, and on a desktop for every target; for any other click on a phone
\* or tablet the sidebar is collapsed afterwards.
C29_ClickOutsideCollapses ==
    [][\A i \in 1..Len(siteEvent'.heard) :
          IF \/ OwnTarget(siteEvent'.target, siteEvent'.heard[i].side)
             \/ siteEvent'.device = "desktop"
          THEN siteEvent'.heard[i].after = siteEvent'.heard[i].before
          ELSE Collapsed(siteEvent'.heard[i].after)]_vars

\* On a tablet with both sidebars open a click inside the left one ran both
\* listeners: the left sidebar stayed open, the right one was collapsed.
C29_Witness ==
    /\ siteEvent.kind = "click"
    /\ siteEvent.device = "tablet"
    /\ siteEvent.target = Target("content", "left")
    /\ Len(siteEvent.heard) = 2
    /\ \E i, j \in 1..2 :
          /\ siteEvent.heard[i].side = "left"
          /\ IsOpen(siteEvent.heard[i].after)
          /\ siteEvent.heard[j].side = "right"
          /\ IsOpen(siteEvent.heard[j].before)
          /\ Collapsed(siteEvent.heard[j].after)

\* A listener ran on a desktop: its sidebar was opened on a smaller window.
C29_OnDesktop ==
    /\ siteEvent.kind = "click"
    /\ siteEvent.device = "desktop"
    /\ siteEvent.heard # <<>>

(***************************************************************************)
(* Properties of resolveLink for references without a fragment              *)
(***************************************************************************)

\* The reference has no "#" and names a file the Index holds.
PlainIndexRef(link, preferAttachment) ==
    /\ link # <<>>
    /\ \A i \in 1..Len(link) : link[i] # "#"
    /\ IndexGetFile(RefPath(link), preferAttachment).found

\* "?query" of a reference without a fragment, nothing when it has none.
QueryOf(link) ==
    IF Len(Split(link, "?")) > 1 /\ Trim(Split(link, "?")[2]) # <<>>
    THEN <<"?">> \o Trim(Split(link, "?")[2])
    ELSE <<>>

\* C30: for a reference without a fragment that resolves through the Index,
\* resolveLink returns the attachment's target path, followed by "?query"
\* when the reference has a query, and no fragment.
C30_NoFragmentAppended ==
    [][\A p \in Pages :
          (Resolves(p) /\ PlainIndexRef(call'.link, call'.preferAttachment)) =>
              call'.result =
                  IndexGetFile(RefPath(call'.link), call'.preferAttachment).targetPath
                      \o QueryOf(call'.link)]_vars

(***************************************************************************)
(* Further properties of the link and embed passes                          *)
(***************************************************************************)

\* The ids of the heading elements of page p.
HeadingIds(p) == {headings[p][i].id : i \in 1..Len(headings[p])}

\* An "a" element of the page whose href named a place of this document and
\* was rewritten.
RewrittenFragment(el) ==
    HasHref(el) /\ StartsWith(el.orig, <<"#">>) /\ el.value # el.orig

\* C31: a same-document fragment that was rewritten names, after the "#",
\* the id of a heading element of the page, however many headings share the
\* text; a fragment whose key belongs to a heading is rewritten.
C31_AnchorNeverDangles ==
    \A p \in Pages :
        Remapped(p) =>
            \A i \in 1..Len(elems[p]) :
                /\ RewrittenFragment(elems[p][i]) =>
                      \E id \in HeadingIds(p) :
                          elems[p][i].value \in
                              {<<"#">> \o id, PageTarget(p) \o <<"#">> \o id}
                /\ (/\ HasHref(elems[p][i])
                    /\ StartsWith(elems[p][i].orig, <<"#">>)
                    /\ elems[p][i].dataHref = Undefined
                    /\ Occurrences(headings[p],
                                   NormalizeHeader(Substring(elems[p][i].orig, 1))) > 0)
                      => RewrittenFragment(elems[p][i])

\* Three headings share the text of a link, and the link was rewritten.
C31_Witness ==
    \E p \in Pages :
        /\ Remapped(p)
        /\ \E i \in 1..Len(elems[p]) :
              /\ RewrittenFragment(elems[p][i])
              /\ Occurrences(headings[p],
                             NormalizeHeader(Substring(elems[p][i].orig, 1))) = 3

\* The src an element has after one visit of a loop of remapEmbedLinks:
\* newSrc ?? src.
VisitedOnce(p, el) ==
    IF ResolveLink(headerMap[p], PageTarget(p), exportOptions, el.orig, el.dataHref, TRUE)
           # Undefined
    THEN ResolveLink(headerMap[p], PageTarget(p), exportOptions, el.orig, el.dataHref, TRUE)
    ELSE el.orig

\* C32: after remapEmbedLinks every element with a src has the src one
\* application of resolveLink to its original value gives, the iframes and
\* model-viewers that two loops visit included.
C32_SrcResolvedOnce ==
    \A p \in Pages :
        Remapped(p) =>
            \A i \in 1..Len(elems[p]) :
                HasSrc(elems[p][i]) => elems[p][i].value = VisitedOnce(p, elems[p][i])

\* The slide iframes of a page whose src handleAdvancedSlidesEmbeds has set.
EmbeddedIframes(p) == {i \in 1..Len(embeds[p]) : embeds[p][i].slidesEmbed}

\* C33: a link pass of build() leaves the src of every iframe that
\* handleAdvancedSlidesEmbeds has pointed at its embed attachment as it is,
\* also when getAttachments() ran before build().
C33_EmbedSrcKept ==
    [][\A p \in Pages :
          BuildsLinks(p) =>
              \A i \in EmbeddedIframes(p) : embeds'[p][i].src = embeds[p][i].src]_vars

\* The Attachments created for the media of the fragment of a key.
FragmentObjects(key) ==
    {o \in 1..Len(objects) : objects[o].kind = "media" /\ objects[o].key = key}

\* C34: once getAttachments() has returned on a page, the page's attachments
\* hold, for every slide the page shows embedded, the Attachments that were
\* created for the media of the slide's fragment, whichever page's call
\* rendered the fragment.
C34_FragmentMediaCollected ==
    \A p \in Pages :
        pc[p] = "done" =>
            \A i \in EmbeddedIframes(p) :
                \A o \in FragmentObjects(embeds[p][i].key) : Includes(attachments[p], o)

\* The step in which the renderer settles without HTML for the page's embed.
RenderCameBackEmpty(p) == pc[p] = "render" /\ pc'[p] = "loop"

\* C35: a render that settles without HTML leaves every placeholder of the
\* page as it was: the iframe is not marked exported, the slide block is not
\* replaced.
C35_FailedEmbedLeftAlone ==
    [][\A p \in Pages : RenderCameBackEmpty(p) => embeds'[p] = embeds[p]]_vars

\* What lines 1248-1257 make of a local src element whose file was read.
Inlined(el) ==
    IF Truthy(ReadAsBase64(GetFilePathFromSrc(el.orig)))
    THEN DataUri(GetFilePathFromSrc(el.orig), ReadAsBase64(GetFilePathFromSrc(el.orig)))
    ELSE el.orig

\* C36: when inlineMedia has returned, every element whose src names a local
\* file carries the data URI of the file, and an element whose file gave no
\* data carries its original src, whatever the elements before it did.
C36_MediaInlinedIndependently ==
    \A p \in Pages :
        life[p].inlined = "returned" =>
            \A i \in 1..Len(elems[p]) :
                IsLocalMedia([elems[p][i] EXCEPT !.value = elems[p][i].orig])
                    => elems[p][i].value = Inlined(elems[p][i])

(***************************************************************************)
(* Properties of the resize drag                                           *)
(***************************************************************************)

\* C37: a sidebar is resizing exactly while a drag of its handle is in
\* progress: from the pointerdown on the handle to the pointerup after it.
C37_ResizingWhileDragging ==
    \A side \in Sides : sidebars[side].resizing = sidebars[side].held

\* C38: the saved width of a sidebar, once absent, appears only with the
\* pointerup that ends a drag of the sidebar's handle; no other event, and no
\* pointerup outside a drag, writes it.
C38_SavedWidthOnlyAfterDrag ==
    [][\A side \in Sides :
          (sidebars[side].saved = <<>> /\ sidebars'[side].saved # <<>>)
              => (sidebars[side].held /\ siteEvent'.kind = "pointerup")]_vars

====
